---------------------------- MODULE Spec2Model ----------------------------
(***************************************************************************)
(* Safe SQL query validation and execution of kod2337/TextToSQL            *)
(* (src/src/query/executor.py, src/src/database/connection.py).            *)
(*                                                                         *)
(* A text is a sequence of one-character strings.  Messages (rejection     *)
(* reasons, error strings) are sequences of string pieces whose            *)
(* concatenation is the Python string; the empty sequence is the empty     *)
(* string.  An Optional value is a sequence of length 0 (None) or 1.       *)
(***************************************************************************)
EXTENDS Integers, Sequences, FiniteSets, TLC

(***************************************************************************)
(* Bounds of the model.                                                    *)
(***************************************************************************)
\* longest sequence of core fragments a generated text is made of
MaxFrags == 3
\* largest number of rows the backend streams back for one statement
MaxBackendRows == 3
\* threads that may call into the executor
NumThreads == 2
\* small limits, used beside the defaults so that short texts reach the gates
SmallMaxJoins == 1
SmallMaxLength == 12
SmallMaxSubqueries == 1
SmallMaxRows == 2
SmallTimeout == 3
\* largest reading of the clock
MaxClock == 3
\* most words `join` after the leading select of a generated text
MaxJoinWords == 7
\* most further occurrences of `select` after the leading select of a generated text
MaxSelectWords == 5
\* columns added to the 200-column query to make a longer one
MoreColumns == 70
\* rows of a backend result larger than the default row cap
BigResultRows == 2500

(***************************************************************************)
(* Program constants: the defaults of QueryValidator.__init__ and          *)
(* SafeQueryExecutor.__init__.                                             *)
(***************************************************************************)
DEFAULT_MAX_JOINS == 5
DEFAULT_MAX_LENGTH == 2000
DEFAULT_MAX_SUBQUERIES == 3
DEFAULT_TIMEOUT == 10
DEFAULT_MAX_ROWS == 1000
\* the number of columns of the "too long" query of tests/test_phase4.py
TestColumns == 200

Threads == 1..NumThreads

None == <<>>
Some(x) == <<x>>

(***************************************************************************)
(* Characters and the str methods the validator uses.                      *)
(***************************************************************************)
LowerCase == [A |-> "a", B |-> "b", C |-> "c", D |-> "d", E |-> "e", F |-> "f", G |-> "g", H |-> "h", I |-> "i", J |-> "j", K |-> "k", L |-> "l", M |-> "m", N |-> "n", O |-> "o", P |-> "p", Q |-> "q", R |-> "r", S |-> "s", T |-> "t", U |-> "u", V |-> "v", W |-> "w", X |-> "x", Y |-> "y", Z |-> "z"]

UpperCase == [a |-> "A", b |-> "B", c |-> "C", d |-> "D", e |-> "E", f |-> "F", g |-> "G", h |-> "H", i |-> "I", j |-> "J", k |-> "K", l |-> "L", m |-> "M", n |-> "N", o |-> "O", p |-> "P", q |-> "Q", r |-> "R", s |-> "S", t |-> "T", u |-> "U", v |-> "V", w |-> "W", x |-> "X", y |-> "Y", z |-> "Z"]

Digits == {"0","1","2","3","4","5","6","7","8","9"}

\* the digits in order
Digits10 == <<"0","1","2","3","4","5","6","7","8","9">>

\* the characters str.strip() removes
Whitespace == {" ", "\t", "\n", "\r"}

\* \w of the re module
IsWordChar(c) == c \in DOMAIN LowerCase \/ c \in DOMAIN UpperCase \/ c \in Digits \/ c = "_"

\* str.lower()
lower(s) == [i \in 1..Len(s) |-> IF s[i] \in DOMAIN LowerCase THEN LowerCase[s[i]] ELSE s[i]]

\* str.upper()
upper(s) == [i \in 1..Len(s) |-> IF s[i] \in DOMAIN UpperCase THEN UpperCase[s[i]] ELSE s[i]]

\* str.capitalize() of a word written in lower case
capitalize(s) == [i \in 1..Len(s) |-> IF i = 1 /\ s[i] \in DOMAIN UpperCase THEN UpperCase[s[i]] ELSE s[i]]

\* str.strip()
strip(s) ==
  LET keep == {i \in 1..Len(s) : s[i] \notin Whitespace}
  IN IF keep = {} THEN <<>>
     ELSE LET first == CHOOSE i \in keep : \A j \in keep : i <= j
              last == CHOOSE i \in keep : \A j \in keep : j <= i
          IN SubSeq(s, first, last)

\* str.startswith(prefix)
startswith(s, prefix) == Len(s) >= Len(prefix) /\ SubSeq(s, 1, Len(prefix)) = prefix

\* the pattern p occurs in s at position i
MatchAt(s, p, i) == i >= 1 /\ i + Len(p) - 1 <= Len(s) /\ SubSeq(s, i, i + Len(p) - 1) = p

\* `p in s`
contains(s, p) == \E i \in 1..Len(s) : MatchAt(s, p, i)

\* \b between s[k] and s[k+1]; outside the string counts as a non-word character
WordBoundary(s, k) ==
  LET before == k >= 1 /\ k <= Len(s) /\ IsWordChar(s[k])
      after == k + 1 >= 1 /\ k + 1 <= Len(s) /\ IsWordChar(s[k + 1])
  IN before # after

\* the regular expression \b p \b matches in s at position i
WordMatchAt(s, p, i) == MatchAt(s, p, i) /\ WordBoundary(s, i - 1) /\ WordBoundary(s, i + Len(p) - 1)

\* re_search_word with the word boundaries left out of the pattern
re_search_plain(p, s) == contains(s, p)

\* re.search(r'\b' + re.escape(p) + r'\b', s) finds a match
re_search_word(p, s) == \E i \in 1..Len(s) : WordMatchAt(s, p, i)

RECURSIVE CountFrom(_, _, _, _)
\* the number of non-overlapping matches of p in s from position i on, scanning
\* left to right: str.count(p) (whole = FALSE), len(re.findall(r'\bp\b')) (whole = TRUE)
CountFrom(s, p, i, whole) ==
  LET matches == {k \in i..Len(s) : IF whole THEN WordMatchAt(s, p, k) ELSE MatchAt(s, p, k)}
  IN IF matches = {} THEN 0
     ELSE LET first == CHOOSE k \in matches : \A j \in matches : k <= j
          IN 1 + CountFrom(s, p, first + Len(p), whole)

\* str.count(p)
count(s, p) == CountFrom(s, p, 1, FALSE)

\* len(re.findall(r'\bp\b', s))
findall_word_count(p, s) == CountFrom(s, p, 1, TRUE)

(***************************************************************************)
(* QueryValidator: the lists and the checks.                               *)
(***************************************************************************)
FORBIDDEN_KEYWORDS ==
  <<[name |-> "drop", chars |-> <<"d","r","o","p">>],
    [name |-> "truncate", chars |-> <<"t","r","u","n","c","a","t","e">>],
    [name |-> "alter", chars |-> <<"a","l","t","e","r">>],
    [name |-> "create", chars |-> <<"c","r","e","a","t","e">>],
    [name |-> "insert", chars |-> <<"i","n","s","e","r","t">>],
    [name |-> "update", chars |-> <<"u","p","d","a","t","e">>],
    [name |-> "delete", chars |-> <<"d","e","l","e","t","e">>],
    [name |-> "grant", chars |-> <<"g","r","a","n","t">>],
    [name |-> "revoke", chars |-> <<"r","e","v","o","k","e">>],
    [name |-> "exec", chars |-> <<"e","x","e","c">>],
    [name |-> "execute", chars |-> <<"e","x","e","c","u","t","e">>],
    [name |-> "call", chars |-> <<"c","a","l","l">>],
    [name |-> "replace", chars |-> <<"r","e","p","l","a","c","e">>],
    [name |-> "merge", chars |-> <<"m","e","r","g","e">>],
    [name |-> "into", chars |-> <<"i","n","t","o">>],
    [name |-> "values", chars |-> <<"v","a","l","u","e","s">>]>>

RESTRICTED_KEYWORDS ==
  <<[name |-> "union", chars |-> <<"u","n","i","o","n">>],
    [name |-> "information_schema", chars |-> <<"i","n","f","o","r","m","a","t","i","o","n","_","s","c","h","e","m","a">>],
    [name |-> "pg_", chars |-> <<"p","g","_">>],
    [name |-> "mysql.", chars |-> <<"m","y","s","q","l",".">>],
    [name |-> "sys.", chars |-> <<"s","y","s",".">>],
    [name |-> "master.", chars |-> <<"m","a","s","t","e","r",".">>],
    [name |-> "msdb.", chars |-> <<"m","s","d","b",".">>],
    [name |-> "tempdb.", chars |-> <<"t","e","m","p","d","b",".">>],
    [name |-> "performance_schema", chars |-> <<"p","e","r","f","o","r","m","a","n","c","e","_","s","c","h","e","m","a">>]>>

SELECT_WORD == <<"s","e","l","e","c","t">>

JOIN_WORD == <<"j","o","i","n">>

\* the message of the QuerySafetyError a check raises, <<>> when it raises none
NoError == <<>>

\* the index of the first entry of a list that a for loop finds in a set of hits, 0 if none
FirstHit(hits) == IF hits = {} THEN 0 ELSE CHOOSE i \in hits : \A j \in hits : i <= j

\* validate_syntax looking for SELECT anywhere in the text instead of at its start
validate_syntax_select_anywhere(query) ==
  LET query_clean == strip(query)
  IN IF query_clean = <<>> THEN <<"Empty query">>
     ELSE IF ~contains(lower(query_clean), SELECT_WORD) THEN <<"Only SELECT queries are allowed">>
     ELSE IF count(query_clean, <<"(">>) # count(query_clean, <<")">>) THEN <<"Unmatched parentheses in query">>
     ELSE NoError

validate_syntax(query) ==
  LET query_clean == strip(query)
  IN IF query_clean = <<>> THEN <<"Empty query">>
     ELSE IF ~startswith(lower(query_clean), SELECT_WORD) THEN <<"Only SELECT queries are allowed">>
     ELSE IF count(query_clean, <<"(">>) # count(query_clean, <<")">>) THEN <<"Unmatched parentheses in query">>
     ELSE NoError

\* the keyword loop run on the text as given, not lower-cased
forbidden_hit_case_sensitive(query) ==
  FirstHit({k \in DOMAIN FORBIDDEN_KEYWORDS : re_search_word(FORBIDDEN_KEYWORDS[k].chars, query)})

\* the first loop of check_forbidden_keywords: the index in FORBIDDEN_KEYWORDS
\* of the keyword it raises for, 0 if it raises for none
forbidden_hit(query) ==
  LET query_lower == lower(query)
  IN FirstHit({k \in DOMAIN FORBIDDEN_KEYWORDS : re_search_word(FORBIDDEN_KEYWORDS[k].chars, query_lower)})

\* the restricted loop matching whole words, like the keyword loop
restricted_hit_whole_word(query) ==
  LET query_lower == lower(query)
  IN FirstHit({k \in DOMAIN RESTRICTED_KEYWORDS : re_search_word(RESTRICTED_KEYWORDS[k].chars, query_lower)})

\* the second loop of check_forbidden_keywords, over RESTRICTED_KEYWORDS
restricted_hit(query) ==
  LET query_lower == lower(query)
  IN FirstHit({k \in DOMAIN RESTRICTED_KEYWORDS : contains(query_lower, RESTRICTED_KEYWORDS[k].chars)})

check_forbidden_keywords(query) ==
  IF forbidden_hit(query) # 0
  THEN <<"Forbidden keyword '", FORBIDDEN_KEYWORDS[forbidden_hit(query)].name, "' detected">>
  ELSE IF restricted_hit(query) # 0
  THEN <<"Access to '", RESTRICTED_KEYWORDS[restricted_hit(query)].name, "' is not allowed">>
  ELSE NoError

check_restricted_keywords(query) == <<>>

join_count(query) == findall_word_count(JOIN_WORD, lower(query))

\* subquery_count counting select as a whole word only
subquery_count_words(query) == findall_word_count(SELECT_WORD, lower(query)) - 1

subquery_count(query) == count(lower(query), SELECT_WORD) - 1

\* check_complexity_limits comparing the join count with >= in place of >
check_complexity_limits_join_ge(query, policy) ==
  IF Len(query) > policy.max_length
  THEN <<"Query too long: ", ToString(Len(query)), " > ", ToString(policy.max_length), " characters">>
  ELSE IF join_count(query) >= policy.max_joins
  THEN <<"Too many JOINs: ", ToString(join_count(query)), " > ", ToString(policy.max_joins)>>
  ELSE IF subquery_count(query) > policy.max_subqueries
  THEN <<"Too many subqueries: ", ToString(subquery_count(query)), " > ", ToString(policy.max_subqueries)>>
  ELSE NoError

check_complexity_limits(query, policy) ==
  IF Len(query) > policy.max_length
  THEN <<"Query too long: ", ToString(Len(query)), " > ", ToString(policy.max_length), " characters">>
  ELSE IF join_count(query) > policy.max_joins
  THEN <<"Too many JOINs: ", ToString(join_count(query)), " > ", ToString(policy.max_joins)>>
  ELSE IF subquery_count(query) > policy.max_subqueries
  THEN <<"Too many subqueries: ", ToString(subquery_count(query)), " > ", ToString(policy.max_subqueries)>>
  ELSE NoError

\* validate_query without its call of check_forbidden_keywords
validate_query_skip_keywords(query, policy) ==
  IF validate_syntax(query) # NoError
  THEN [raised |-> TRUE, reason |-> validate_syntax(query), warnings |-> <<>>]
  ELSE IF check_complexity_limits(query, policy) # NoError
  THEN [raised |-> TRUE, reason |-> check_complexity_limits(query, policy), warnings |-> <<>>]
  ELSE [raised |-> FALSE, reason |-> NoError, warnings |-> check_restricted_keywords(query)]

\* validate_query calling check_complexity_limits before check_forbidden_keywords
validate_query_complexity_first(query, policy) ==
  IF validate_syntax(query) # NoError
  THEN [raised |-> TRUE, reason |-> validate_syntax(query), warnings |-> <<>>]
  ELSE IF check_complexity_limits(query, policy) # NoError
  THEN [raised |-> TRUE, reason |-> check_complexity_limits(query, policy), warnings |-> <<>>]
  ELSE IF check_forbidden_keywords(query) # NoError
  THEN [raised |-> TRUE, reason |-> check_forbidden_keywords(query), warnings |-> <<>>]
  ELSE [raised |-> FALSE, reason |-> NoError, warnings |-> check_restricted_keywords(query)]

\* validate_query: [raised |-> TRUE, reason |-> the QuerySafetyError's message], or
\* [raised |-> FALSE, warnings |-> the returned list]
validate_query(query, policy) ==
  IF validate_syntax(query) # NoError
  THEN [raised |-> TRUE, reason |-> validate_syntax(query), warnings |-> <<>>]
  ELSE IF check_forbidden_keywords(query) # NoError
  THEN [raised |-> TRUE, reason |-> check_forbidden_keywords(query), warnings |-> <<>>]
  ELSE IF check_complexity_limits(query, policy) # NoError
  THEN [raised |-> TRUE, reason |-> check_complexity_limits(query, policy), warnings |-> <<>>]
  ELSE [raised |-> FALSE, reason |-> NoError, warnings |-> check_restricted_keywords(query)]


(***************************************************************************)
(* Input texts.                                                            *)
(***************************************************************************)
F_select == <<"s","e","l","e","c","t">>
F_SELECT_sp == <<"S","E","L","E","C","T"," ">>
F_sp == <<" ">>
F_lp == <<"(">>
F_rp == <<")">>
F_join == <<" ","j","o","i","n">>
F_JOIN == <<" ","J","O","I","N">>
F_drop == <<"d","r","o","p">>
F_ux == <<"_","x">>
F_pg == <<"p","g","_">>

\* the fragments texts are concatenated from
CoreFrags == {F_select, F_SELECT_sp, F_sp, F_lp, F_rp, F_join, F_JOIN, F_drop, F_ux, F_pg}

RECURSIVE FragTexts(_)
\* the concatenations of at most n core fragments
FragTexts(n) ==
  IF n = 0 THEN {<<>>}
  ELSE FragTexts(n - 1) \cup {a \o b : a \in FragTexts(n - 1), b \in CoreFrags}

L_select_sp == <<"s","e","l","e","c","t"," ">>
L_Select_tab == <<"\t","S","e","l","e","c","t","\t">>
L_select_x_ == <<"s","e","l","e","c","t"," ","x","_">>
L_select_lp == <<"s","e","l","e","c","t"," ","(">>
T_sp_t == <<" ","t">>
T__t == <<"_","t">>
T_d == <<"d">>
T_semi == <<";">>
T_rp_nl == <<")","\n">>

\* SafeQueryExecutor.test_connection's probe and queries of tests/test_phase4.py
Q_select_1 == <<"S","E","L","E","C","T"," ","1"," ","a","s"," ","t","e","s","t","_","v","a","l","u","e">>
Q_customers == <<"S","E","L","E","C","T"," ","*"," ","F","R","O","M"," ","c","u","s","t","o","m","e","r","s",";">>
Q_drop == <<"D","R","O","P"," ","T","A","B","L","E"," ","c","u","s","t","o","m","e","r","s",";">>
Q_info == <<"S","E","L","E","C","T"," ","*"," ","F","R","O","M"," ","i","n","f","o","r","m","a","t","i","o","n","_","s","c","h","e","m","a",".","t","a","b","l","e","s",";">>

\* every listed keyword and restricted substring, as the lists spell it
ListedWords ==
  {FORBIDDEN_KEYWORDS[k].chars : k \in DOMAIN FORBIDDEN_KEYWORDS}
    \cup {RESTRICTED_KEYWORDS[k].chars : k \in DOMAIN RESTRICTED_KEYWORDS}

\* the listed words in lower, upper and capitalised casing
CasedWords == ListedWords \cup {upper(w) : w \in ListedWords} \cup {capitalize(w) : w \in ListedWords}

\* a listed word in some casing, after a lead and before a trail: as a whole
\* word, inside a longer identifier, after SELECT or at the start of the text
WordTexts ==
  {l \o w \o r : l \in {<<>>, L_select_sp, L_Select_tab, L_select_x_, L_select_lp},
                 w \in CasedWords,
                 r \in {<<>>, T_sp_t, T__t, T_d, T_semi, T_rp_nl}}

\* two listed words after SELECT
PairTexts == {L_select_sp \o v \o F_sp \o w : v \in ListedWords, w \in ListedWords}

RECURSIVE Rep(_, _)
\* the text f repeated n times
Rep(f, n) == IF n = 0 THEN <<>> ELSE f \o Rep(f, n - 1)

\* select followed by a number of ` join`, ` JOIN` and ` join_x`
JoinTexts ==
  {F_select \o Rep(F_join, a) \o Rep(F_JOIN, b) \o Rep(F_join \o F_ux, c) :
     a \in 0..MaxJoinWords, b \in 0..1, c \in 0..2}

\* select followed by a number of ` select`, ` SELECT ` and ` select_x`
SelectTexts ==
  {F_select \o Rep(F_sp \o F_select, a) \o Rep(F_sp \o F_SELECT_sp, b) \o Rep(F_sp \o F_select \o F_ux, c) :
     a \in 0..MaxSelectWords, b \in 0..1, c \in 0..MaxSelectWords}

\* the decimal digits of a natural number, as str() writes it
RECURSIVE str(_)
str(n) == IF n < 10 THEN <<Digits10[n + 1]>> ELSE str(n \div 10) \o <<Digits10[(n % 10) + 1]>>

RECURSIVE JoinCols(_, _)
\* ", ".join([f"col{i}" for i in range(lo, hi)])
JoinCols(lo, hi) ==
  IF lo >= hi THEN <<>>
  ELSE IF lo + 1 = hi THEN <<"c","o","l">> \o str(lo)
  ELSE LET mid == (lo + hi) \div 2
       IN JoinCols(lo, mid) \o <<",", " ">> \o JoinCols(mid, hi)

\* "SELECT " + ", ".join([f"col{i}" for i in range(n)]) + " FROM customers;"
Q_columns(n) ==
  <<"S","E","L","E","C","T"," ">> \o JoinCols(0, n)
    \o <<" ","F","R","O","M"," ","c","u","s","t","o","m","e","r","s",";">>

\* the complex queries of tests/test_phase4.py: 200 columns, and more columns
ColumnTexts == {Q_columns(TestColumns), Q_columns(TestColumns + MoreColumns)}

\* the texts given to QueryValidator.validate_query
ValTexts ==
  FragTexts(MaxFrags) \cup WordTexts \cup PairTexts \cup JoinTexts \cup SelectTexts \cup ColumnTexts
    \cup {Q_select_1, Q_customers, Q_drop, Q_info}

\* the texts given to SafeQueryExecutor.execute_query
ExecTexts ==
  {<<>>} \cup CoreFrags \cup {a \o b : a \in CoreFrags, b \in CoreFrags}
    \cup {F_select \o F_join \o F_join, F_select \o F_select \o F_select, F_select \o F_lp \o F_rp}
    \cup {l \o w \o r : l \in {<<>>, L_select_sp}, w \in ListedWords \cup {upper(w) : w \in ListedWords}, r \in {<<>>, T__t}}
    \cup {L_select_sp \o FORBIDDEN_KEYWORDS[5].chars \o F_sp \o FORBIDDEN_KEYWORDS[15].chars,
          L_select_sp \o FORBIDDEN_KEYWORDS[15].chars \o F_sp \o FORBIDDEN_KEYWORDS[5].chars}
    \cup {Q_select_1, Q_customers, Q_drop, Q_info}

\* the timeout argument of execute_query: None or a number of seconds
TimeoutArgs == {None, Some(0), Some(1), Some(-1)}

\* the calls of the public functions: [entry, query, timeout]
CallInputs ==
  {[entry |-> "execute_query", query |-> q, timeout |-> to] : q \in ExecTexts, to \in TimeoutArgs}
    \cup {[entry |-> "execute_sql_safely", query |-> q, timeout |-> to] :
            q \in {Q_customers, Q_drop, Q_info}, to \in {None, Some(1)}}
    \cup {[entry |-> "test_connection", query |-> Q_select_1, timeout |-> None]}

(***************************************************************************)
(* The executors the program may construct: SafeQueryExecutor() with its   *)
(* defaults, and executors with small limits.                              *)
(***************************************************************************)
DefaultPolicy == [max_joins |-> DEFAULT_MAX_JOINS, max_length |-> DEFAULT_MAX_LENGTH, max_subqueries |-> DEFAULT_MAX_SUBQUERIES]

Policies ==
  {DefaultPolicy,
   [max_joins |-> SmallMaxJoins, max_length |-> DEFAULT_MAX_LENGTH, max_subqueries |-> SmallMaxSubqueries],
   [max_joins |-> SmallMaxJoins, max_length |-> SmallMaxLength, max_subqueries |-> SmallMaxSubqueries]}

Executors ==
  {[validator |-> DefaultPolicy, default_timeout |-> DEFAULT_TIMEOUT, max_rows |-> DEFAULT_MAX_ROWS]}
    \cup {[validator |-> p, default_timeout |-> SmallTimeout, max_rows |-> SmallMaxRows] : p \in Policies \ {DefaultPolicy}}

(***************************************************************************)
(* Exceptions.                                                             *)
(***************************************************************************)
\* the classes of the exceptions the backend steps raise, each with its bases
Bases ==
  [QuerySafetyError |-> {"QuerySafetyError", "Exception"},
   TimeoutError |-> {"TimeoutError", "SQLAlchemyError", "Exception"},
   OperationalError |-> {"OperationalError", "SQLAlchemyError", "Exception"},
   RuntimeError |-> {"RuntimeError", "Exception"}]

isinstance(exc, class) == class \in Bases[exc.cls]

\* the class of the exception by which each kind of failure reaches
\* execute_query: sqlalchemy.exc.TimeoutError is what a connection pool raises
\* when no connection can be checked out in time; what the database or its
\* driver reports, a timeout included (the connect_timeout of
\* create_database_engine, a statement cancelled by the server's statement
\* timeout), comes wrapped as a DBAPIError such as OperationalError; anything
\* else is an exception outside SQLAlchemy's hierarchy
ClassOfOrigin ==
  {<<"TimeoutError", "timeout">>, <<"OperationalError", "timeout">>, <<"OperationalError", "database">>,
   <<"RuntimeError", "other">>}

\* what create_engine, connect, execute and the row iterator may raise
BackendExceptions ==
  {[cls |-> co[1], msg |-> m, origin |-> co[2]] : co \in ClassOfOrigin, m \in {<<>>, <<"boom">>}}

\* QueryResult(success=False, error=...) with the dataclass defaults
Failure(error) ==
  [success |-> FALSE, data |-> None, row_count |-> 0, execution_time |-> 0, error |-> Some(error), warnings |-> <<>>]

\* the except clauses without the one for QuerySafetyError
execute_query_except_no_safety(exc, timeout) ==
  IF isinstance(exc, "TimeoutError")
  THEN [caught |-> TRUE, result |-> Failure(<<"Query timeout after ", ToString(timeout), " seconds">>)]
  ELSE IF isinstance(exc, "SQLAlchemyError")
  THEN [caught |-> TRUE, result |-> Failure(<<"Database error: ">> \o exc.msg)]
  ELSE IF isinstance(exc, "Exception")
  THEN [caught |-> TRUE, result |-> Failure(<<"Unexpected error: ">> \o exc.msg)]
  ELSE [caught |-> FALSE, result |-> Failure(<<>>)]

\* the except clauses without the last one, for Exception
execute_query_except_no_catchall(exc, timeout) ==
  IF isinstance(exc, "QuerySafetyError")
  THEN [caught |-> TRUE, result |-> Failure(<<"Safety violation: ">> \o exc.msg)]
  ELSE IF isinstance(exc, "TimeoutError")
  THEN [caught |-> TRUE, result |-> Failure(<<"Query timeout after ", ToString(timeout), " seconds">>)]
  ELSE IF isinstance(exc, "SQLAlchemyError")
  THEN [caught |-> TRUE, result |-> Failure(<<"Database error: ">> \o exc.msg)]
  ELSE [caught |-> FALSE, result |-> Failure(<<>>)]

\* the except clauses of execute_query, tried in order
execute_query_except(exc, timeout) ==
  IF isinstance(exc, "QuerySafetyError")
  THEN [caught |-> TRUE, result |-> Failure(<<"Safety violation: ">> \o exc.msg)]
  ELSE IF isinstance(exc, "TimeoutError")
  THEN [caught |-> TRUE, result |-> Failure(<<"Query timeout after ", ToString(timeout), " seconds">>)]
  ELSE IF isinstance(exc, "SQLAlchemyError")
  THEN [caught |-> TRUE, result |-> Failure(<<"Database error: ">> \o exc.msg)]
  ELSE IF isinstance(exc, "Exception")
  THEN [caught |-> TRUE, result |-> Failure(<<"Unexpected error: ">> \o exc.msg)]
  ELSE [caught |-> FALSE, result |-> Failure(<<>>)]

\* round(x, 3) of a time x given in thirds of a millisecond: the nearest whole
\* number of milliseconds, again in thirds of a millisecond
round3(x) == 3 * ((x + 1) \div 3)

\* format_result adding the warnings key whatever the list holds
format_result_always_warnings(r) ==
  IF r.success
  THEN [success |-> r.success, execution_time |-> round3(r.execution_time), row_count |-> r.row_count,
        data |-> r.data, warnings |-> r.warnings]
  ELSE [success |-> r.success, execution_time |-> round3(r.execution_time), row_count |-> r.row_count,
        error |-> r.error]

\* SafeQueryExecutor.format_result
format_result(r) ==
  IF r.success
  THEN IF r.warnings # <<>>
       THEN [success |-> r.success, execution_time |-> round3(r.execution_time), row_count |-> r.row_count,
             data |-> r.data, warnings |-> r.warnings]
       ELSE [success |-> r.success, execution_time |-> round3(r.execution_time), row_count |-> r.row_count,
             data |-> r.data]
  ELSE [success |-> r.success, execution_time |-> round3(r.execution_time), row_count |-> r.row_count,
        error |-> r.error]

\* entry_return with test_connection answering True whatever the execution gave
entry_return_probe_true(e, r) ==
  IF e = "execute_sql_safely" THEN [kind |-> "dict", value |-> format_result(r)]
  ELSE IF e = "test_connection" THEN [kind |-> "bool", value |-> TRUE]
  ELSE [kind |-> "QueryResult", value |-> r]

\* what the public function that was called returns, given execute_query's result
entry_return(e, r) ==
  IF e = "execute_sql_safely" THEN [kind |-> "dict", value |-> format_result(r)]
  ELSE IF e = "test_connection" THEN [kind |-> "bool", value |-> r.success]
  ELSE [kind |-> "QueryResult", value |-> r]

NoResponse == [kind |-> "none"]

(***************************************************************************)
(* The text-to-SQL pipeline: the str methods it uses, the cleaning of the  *)
(* generated text, and what the generation collaborators return.           *)
(***************************************************************************)
\* str.endswith(suffix)
endswith(s, suffix) == Len(s) >= Len(suffix) /\ SubSeq(s, Len(s) - Len(suffix) + 1, Len(s)) = suffix

RECURSIVE replace(_, _, _)
\* str.replace(old, "", n): the first n occurrences of old removed, scanning
\* left to right; n = -1 removes them all
replace(s, old, n) ==
  IF s = <<>> \/ n = 0 THEN s
  ELSE IF MatchAt(s, old, 1) THEN replace(SubSeq(s, Len(old) + 1, Len(s)), old, IF n > 0 THEN n - 1 ELSE n)
  ELSE <<Head(s)>> \o replace(Tail(s), old, n)

\* the grave accent as one character of a text (a string of this language
\* cannot hold the character itself)
GRAVE == "grave"

\* the markdown fences: three grave accents, and three followed by sql
FENCE == <<GRAVE, GRAVE, GRAVE>>
FENCE_SQL == FENCE \o <<"s","q","l">>

\* prefixes_to_remove of TextToSQLChain._clean_sql_response
RESPONSE_PREFIXES ==
  << <<"S","Q","L"," ","Q","u","e","r","y",":">>,
     <<"Q","u","e","r","y",":">>,
     <<"S","Q","L",":">>,
     <<"A","n","s","w","e","r",":">> >>

\* prefixes_to_remove of TextToSQLPipeline._clean_sql_query, prefixes of
\* GroqLLM._clean_groq_response
QUERY_PREFIXES ==
  << <<"S","Q","L",":">>,
     <<"Q","u","e","r","y",":">>,
     <<"S","E","L","E","C","T",":">>,
     <<"s","q","l",":">>,
     <<"q","u","e","r","y",":">> >>

RECURSIVE replace_prefixes(_, _)
\* for prefix in prefixes: if response.strip().startswith(prefix):
\*     response = response.replace(prefix, "", 1)
replace_prefixes(response, prefixes) ==
  IF prefixes = <<>> THEN response
  ELSE replace_prefixes(IF startswith(strip(response), Head(prefixes))
                        THEN replace(response, Head(prefixes), 1)
                        ELSE response,
                        Tail(prefixes))

RECURSIVE cut_prefixes(_, _)
\* for prefix in prefixes: if query.startswith(prefix):
\*     query = query[len(prefix):].strip()
cut_prefixes(q, prefixes) ==
  IF prefixes = <<>> THEN q
  ELSE cut_prefixes(IF startswith(q, Head(prefixes))
                    THEN strip(SubSeq(q, Len(Head(prefixes)) + 1, Len(q)))
                    ELSE q,
                    Tail(prefixes))

\* TextToSQLChain._clean_sql_response
clean_sql_response(response) ==
  strip(replace_prefixes(replace(replace(response, FENCE_SQL, -1), FENCE, -1), RESPONSE_PREFIXES))

\* GroqLLM._clean_groq_response
clean_groq_response(response) ==
  IF response = <<>> THEN <<>>
  ELSE LET r1 == strip(response)
           r2 == IF startswith(r1, FENCE_SQL) THEN SubSeq(r1, 7, Len(r1))
                 ELSE IF startswith(r1, FENCE) THEN SubSeq(r1, 4, Len(r1))
                 ELSE r1
           r3 == IF endswith(r2, FENCE) THEN SubSeq(r2, 1, Len(r2) - 3) ELSE r2
           r4 == strip(cut_prefixes(r3, QUERY_PREFIXES))
       IN IF r4 # <<>> /\ ~endswith(r4, <<";">>) THEN r4 \o <<";">> ELSE r4

\* the markdown branch of _clean_sql_query: the first line dropped, the last
\* one too if it is a closing fence, the rest joined again and trimmed
unfence(q) ==
  LET newlines == {i \in 1..Len(q) : q[i] = "\n"}
  IN IF newlines = {} THEN <<>>
     ELSE LET first == CHOOSE i \in newlines : \A j \in newlines : i <= j
              last == CHOOSE i \in newlines : \A j \in newlines : j <= i
          IN IF strip(SubSeq(q, last + 1, Len(q))) = FENCE
             THEN strip(SubSeq(q, first + 1, last - 1))
             ELSE strip(SubSeq(q, first + 1, Len(q)))

\* TextToSQLPipeline._clean_sql_query
clean_sql_query(query) ==
  IF query = <<>> THEN <<>>
  ELSE LET q1 == strip(query)
           q2 == IF endswith(q1, <<";">>) THEN q1 ELSE q1 \o <<";">>
           q3 == IF startswith(q2, FENCE) THEN unfence(q2) ELSE q2
       IN cut_prefixes(q3, QUERY_PREFIXES)

\* what the language model may answer: nothing, the queries of the tests with
\* and without the final semicolon, a forbidden statement, an answer with a
\* prefix, a fenced answer, a bare prefix
A_select_2 == <<"S","E","L","E","C","T"," ","2">>
A_prefixed == <<"S","Q","L",":"," ">> \o Q_customers
A_fenced == FENCE_SQL \o <<"\n">> \o Q_select_1 \o <<"\n">> \o FENCE
A_bare_prefix == <<"s","q","l",":">>
Answers == {<<>>, Q_select_1, A_select_2, Q_customers, Q_drop, A_prefixed, A_fenced, A_bare_prefix}

\* what a generation step meets: the language model answers (Some(text)) or
\* the call of it raises (None)
Replies == {None} \cup {Some(a) : a \in Answers}

\* GroqLangChainLLM._call returns the content trimmed;
\* TextToSQLChain.generate_sql returns "sql": the cleaned answer, or "" from
\* its except clause when a chain raised
TextToSQLChain_generate_sql(reply) ==
  IF reply = None THEN <<>> ELSE clean_sql_response(strip(reply[1]))

\* LangChainSQLAgent.analyze_complex_query returns the chain's dict with
\* "analysis" and "method" added, or "sql": "" from its except clause
analyze_complex_query(reply) == TextToSQLChain_generate_sql(reply)

\* GroqLLM.generate_sql returns the cleaned content
GroqLLM_generate_sql(answer) == clean_groq_response(strip(answer))

\* the pipeline is between calls
NoPipeline ==
  [pc |-> "idle", entry |-> "none", template_type |-> "none", use_agent |-> FALSE, execute_query |-> FALSE,
   sql_query |-> <<>>, cleaned_query |-> <<>>, result_bound |-> FALSE, in_result |-> FALSE,
   execution_result |-> None, generated |-> <<>>, executed |-> <<>>, out |-> None, response |-> None]
\* no request has been handled
NoRequest == [route |-> "none"]

(***************************************************************************)
(* State.                                                                  *)
(***************************************************************************)
VARIABLES
  executor,     \* the SafeQueryExecutor: its validator's limits, default_timeout, max_rows
  engine,       \* connection.engine, the module-level global: 0 (None) or the thread whose call bound it last
  pc,           \* per thread: where its call stands
  entry,        \* per thread: the public function it called
  query,        \* per thread: the text of its call
  timeout_arg,  \* per thread: the timeout argument of its call
  timeout,      \* per thread: execute_query's local timeout after `timeout or self.default_timeout`
  verdict,      \* per thread: what validate_query did for its call, None before
  warnings,     \* per thread: execute_query's local warnings
  rows,         \* per thread: execute_query's local rows, the backend's rows numbered 1, 2, ...
  stream,       \* per thread: the number of rows of the backend's result, -1 while there is none
  conn,         \* per thread: the connection of its call: "none", "open", "closed"
  acquired,     \* per thread: connections opened during its call
  created,      \* per thread: engines created during its call
  submitted,    \* per thread: statements sent to the backend during its call
  result,       \* per thread: the QueryResult execute_query returned, None before
  response,     \* per thread: what the public function returned
  clock,        \* what time.time() returns now, in thirds of a millisecond
  start_time,   \* per thread: execute_query's local start_time
  raised_exc,   \* per thread: the exception raised inside execute_query's try block, None if none
  first_outcome, \* the text and the outcome of a validation that a caller has kept, None before
  local_engine, \* per thread: execute_query's local engine, the engine create_database_engine returned, 0 before
  conn_id,      \* per thread: the identity of the Connection object of its with block, 0 if none
  open_ids,     \* the identities of the connections that are open at the backend
  pipeline,     \* the frame of TextToSQLPipeline.generate_sql and of execute_text_to_sql around it
  http          \* the request a route of src/api/routes.py has handled and its answer

vars == <<executor, engine, pc, entry, query, timeout_arg, timeout, verdict, warnings, rows,
          stream, conn, acquired, created, submitted, result, response, clock, start_time, raised_exc,
          first_outcome, local_engine, conn_id, open_ids, pipeline, http>>

Init ==
  /\ executor \in Executors
  /\ engine = 0
  /\ pc = [t \in Threads |-> "idle"]
  /\ entry = [t \in Threads |-> "none"]
  /\ query = [t \in Threads |-> <<>>]
  /\ timeout_arg = [t \in Threads |-> None]
  /\ timeout = [t \in Threads |-> 0]
  /\ verdict = [t \in Threads |-> None]
  /\ warnings = [t \in Threads |-> <<>>]
  /\ rows = [t \in Threads |-> <<>>]
  /\ stream = [t \in Threads |-> -1]
  /\ conn = [t \in Threads |-> "none"]
  /\ acquired = [t \in Threads |-> 0]
  /\ created = [t \in Threads |-> 0]
  /\ submitted = [t \in Threads |-> 0]
  /\ result = [t \in Threads |-> None]
  /\ response = [t \in Threads |-> NoResponse]
  /\ clock = 0
  /\ start_time = [t \in Threads |-> 0]
  /\ raised_exc = [t \in Threads |-> None]
  /\ first_outcome = None
  /\ local_engine = [t \in Threads |-> 0]
  /\ conn_id = [t \in Threads |-> 0]
  /\ open_ids = {}
  /\ pipeline = NoPipeline
  /\ http = NoRequest

\* the thread's call has ended: it returned ("done") or raised to its caller ("raised")
Ended(t) == pc[t] \in {"done", "raised"}

\* `timeout or self.default_timeout`
effective_timeout(arg, default_timeout) ==
  IF arg = None \/ arg[1] = 0 THEN default_timeout ELSE arg[1]

\* leaving the block without closing the connection
with_exit_leak(c) == c

\* the `with engine.connect() as conn` block is left: an open connection is closed
with_exit(c) == IF c = "open" THEN "closed" ELSE c

\* the connections open at the backend once thread t has left its with block:
\* Connection.close() closes the connection of the block and no other
closed_at_exit(t) ==
  IF conn[t] = "open" /\ with_exit(conn[t]) = "closed" THEN open_ids \ {conn_id[t]} ELSE open_ids

\* the Connection objects that exist: those open at the backend and those a
\* call still refers to
LiveConnections == open_ids \cup {conn_id[t] : t \in Threads}

\* a pool that hands every caller the one connection it holds
SharedPool_connect(live) == 1

\* NullPool: engine.connect() opens a connection of its own for every caller,
\* an object distinct from every connection that exists
NullPool_connect(live) ==
  CHOOSE i \in 1..NumThreads : i \notin live /\ \A j \in 1..NumThreads : j \notin live => i <= j

\* execute_query returns r: the public function that was called returns
Return(t, r) ==
  /\ LET timed == [r EXCEPT !.execution_time = clock - start_time[t]]
     IN /\ result' = [result EXCEPT ![t] = Some(timed)]
        /\ response' = [response EXCEPT ![t] = entry_return(entry[t], timed)]
  /\ pc' = [pc EXCEPT ![t] = "done"]

\* Raise with one retry: after a failure of the backend the call starts over
\* from create_database_engine
Raise_retrying(t, exc) ==
  /\ raised_exc' = [raised_exc EXCEPT ![t] = Some(exc)]
  /\ conn' = [conn EXCEPT ![t] = with_exit(conn[t])]
  /\ open_ids' = closed_at_exit(t)
  /\ IF exc.cls # "QuerySafetyError" /\ created[t] < 2
     THEN /\ pc' = [pc EXCEPT ![t] = "create_engine"]
          /\ UNCHANGED <<result, response>>
     ELSE Return(t, execute_query_except(exc, timeout[t]).result)

\* exc is raised inside execute_query's try block: the with block, if entered,
\* is left, and the except clauses decide
Raise(t, exc) ==
  /\ raised_exc' = [raised_exc EXCEPT ![t] = Some(exc)]
  /\ conn' = [conn EXCEPT ![t] = with_exit(conn[t])]
  /\ open_ids' = closed_at_exit(t)
  /\ IF execute_query_except(exc, timeout[t]).caught
     THEN Return(t, execute_query_except(exc, timeout[t]).result)
     ELSE IF entry[t] = "test_connection" /\ isinstance(exc, "Exception")
     THEN \* test_connection's own except clause: return False
          /\ response' = [response EXCEPT ![t] = [kind |-> "bool", value |-> FALSE]]
          /\ pc' = [pc EXCEPT ![t] = "done"]
          /\ UNCHANGED result
     ELSE /\ pc' = [pc EXCEPT ![t] = "raised"]
          /\ UNCHANGED <<result, response>>

(***************************************************************************)
(* SafeQueryExecutor.execute_query, step by step, and the public functions *)
(* that call it.                                                           *)
(***************************************************************************)
\* a public function is called: execute_query's lines before the try block
Call(t, in) ==
  /\ pc[t] = "idle"
  /\ pc' = [pc EXCEPT ![t] = "validate"]
  /\ entry' = [entry EXCEPT ![t] = in.entry]
  /\ query' = [query EXCEPT ![t] = in.query]
  /\ timeout_arg' = [timeout_arg EXCEPT ![t] = in.timeout]
  /\ start_time' = [start_time EXCEPT ![t] = clock]
  /\ timeout' = [timeout EXCEPT ![t] = effective_timeout(in.timeout, executor.default_timeout)]
  /\ UNCHANGED <<pipeline, http, executor, first_outcome, local_engine, conn_id, open_ids, clock, raised_exc, engine, verdict, warnings, rows, stream, conn, acquired, created, submitted,
                 result, response>>

\* the caller is done with what the call gave it: nothing of the call is kept
\* (the executor holds no reference to an outcome, the call's locals are gone)
Forget(t) ==
  /\ Ended(t)
  /\ pc' = [pc EXCEPT ![t] = "idle"]
  /\ entry' = [entry EXCEPT ![t] = "none"]
  /\ query' = [query EXCEPT ![t] = <<>>]
  /\ timeout_arg' = [timeout_arg EXCEPT ![t] = None]
  /\ timeout' = [timeout EXCEPT ![t] = 0]
  /\ verdict' = [verdict EXCEPT ![t] = None]
  /\ warnings' = [warnings EXCEPT ![t] = <<>>]
  /\ rows' = [rows EXCEPT ![t] = <<>>]
  /\ stream' = [stream EXCEPT ![t] = -1]
  /\ conn' = [conn EXCEPT ![t] = "none"]
  /\ acquired' = [acquired EXCEPT ![t] = 0]
  /\ created' = [created EXCEPT ![t] = 0]
  /\ submitted' = [submitted EXCEPT ![t] = 0]
  /\ result' = [result EXCEPT ![t] = None]
  /\ response' = [response EXCEPT ![t] = NoResponse]
  /\ start_time' = [start_time EXCEPT ![t] = 0]
  /\ raised_exc' = [raised_exc EXCEPT ![t] = None]
  /\ local_engine' = [local_engine EXCEPT ![t] = 0]
  /\ conn_id' = [conn_id EXCEPT ![t] = 0]
  /\ open_ids' = open_ids \ {conn_id[t]}
  /\ UNCHANGED <<pipeline, http, executor, first_outcome, clock, engine>>

\* Validate consuming the policy: each validation lowers max_subqueries
Validate_lowering_limit(t) ==
  /\ pc[t] = "validate"
  /\ LET v == validate_query(query[t], executor.validator)
     IN /\ verdict' = [verdict EXCEPT ![t] = Some(v)]
        /\ IF v.raised
           THEN /\ Raise(t, [cls |-> "QuerySafetyError", msg |-> v.reason, origin |-> "validator"])
                /\ UNCHANGED warnings
           ELSE /\ warnings' = [warnings EXCEPT ![t] = v.warnings]
                /\ pc' = [pc EXCEPT ![t] = "create_engine"]
                /\ UNCHANGED <<conn, result, response, raised_exc, open_ids>>
  /\ executor' = [executor EXCEPT !.validator.max_subqueries = IF @ > 0 THEN @ - 1 ELSE @]
  /\ UNCHANGED <<pipeline, http, first_outcome, local_engine, conn_id, clock, start_time, engine, entry, query, timeout_arg, timeout, rows, stream,
                 acquired, created, submitted>>

\* Validate with a cache: a text that was accepted before is not validated again
Validate_cached(t) ==
  /\ pc[t] = "validate"
  /\ IF first_outcome # None /\ first_outcome[1].query = query[t] /\ ~first_outcome[1].verdict.raised
     THEN /\ warnings' = [warnings EXCEPT ![t] = first_outcome[1].verdict.warnings]
          /\ pc' = [pc EXCEPT ![t] = "create_engine"]
          /\ UNCHANGED <<verdict, conn, result, response, raised_exc, open_ids>>
     ELSE LET v == validate_query(query[t], executor.validator)
          IN /\ verdict' = [verdict EXCEPT ![t] = Some(v)]
             /\ IF v.raised
                THEN /\ Raise(t, [cls |-> "QuerySafetyError", msg |-> v.reason, origin |-> "validator"])
                     /\ UNCHANGED warnings
                ELSE /\ warnings' = [warnings EXCEPT ![t] = v.warnings]
                     /\ pc' = [pc EXCEPT ![t] = "create_engine"]
                     /\ UNCHANGED <<conn, result, response, raised_exc, open_ids>>
  /\ UNCHANGED <<pipeline, http, executor, first_outcome, local_engine, conn_id, clock, start_time, engine, entry, query,
                 timeout_arg, timeout, rows, stream, acquired, created, submitted>>

\* Step 1: warnings = self.validator.validate_query(query)
Validate(t) ==
  /\ pc[t] = "validate"
  /\ LET v == validate_query(query[t], executor.validator)
     IN /\ verdict' = [verdict EXCEPT ![t] = Some(v)]
        /\ IF v.raised
           THEN /\ Raise(t, [cls |-> "QuerySafetyError", msg |-> v.reason, origin |-> "validator"])
                /\ UNCHANGED warnings
           ELSE /\ warnings' = [warnings EXCEPT ![t] = v.warnings]
                /\ pc' = [pc EXCEPT ![t] = "create_engine"]
                /\ UNCHANGED <<conn, result, response, raised_exc, open_ids>>
  /\ UNCHANGED <<pipeline, http, executor, first_outcome, local_engine, conn_id, clock, start_time, engine, entry, query, timeout_arg, timeout, rows, stream, acquired, created, submitted>>

\* create_database_engine(): `engine = create_engine(...)` binds the module's
\* global to a new engine, here named by the thread whose call made it
CreateEngine(t) ==
  /\ pc[t] = "create_engine"
  /\ engine' = t
  /\ created' = [created EXCEPT ![t] = @ + 1]
  /\ pc' = [pc EXCEPT ![t] = "return_engine"]
  /\ UNCHANGED <<pipeline, http, executor, first_outcome, local_engine, conn_id, open_ids, clock, start_time, raised_exc, entry, query, timeout_arg, timeout, verdict, warnings, rows, stream, conn,
                 acquired, submitted, result, response>>

\* create_database_engine(): `return engine` reads the module's global, which
\* another thread may have bound since; execute_query keeps what is returned
ReturnEngine(t) ==
  /\ pc[t] = "return_engine"
  /\ local_engine' = [local_engine EXCEPT ![t] = engine]
  /\ pc' = [pc EXCEPT ![t] = "connect"]
  /\ UNCHANGED <<pipeline, http, executor, first_outcome, conn_id, open_ids, clock, start_time, raised_exc, engine, entry, query,
                 timeout_arg, timeout, verdict, warnings, rows, stream, conn, acquired, created, submitted,
                 result, response>>

\* create_engine raises: create_database_engine logs and re-raises, the global is not bound
CreateEngineFails(t, exc) ==
  /\ pc[t] = "create_engine"
  /\ Raise(t, exc)
  /\ UNCHANGED <<pipeline, http, executor, first_outcome, local_engine, conn_id, clock, start_time, engine, entry, query, timeout_arg, timeout, verdict, warnings, rows, stream,
                 acquired, created, submitted>>

\* with engine.connect() as conn: a new connection (NullPool) is opened
Connect(t) ==
  /\ pc[t] = "connect"
  /\ conn' = [conn EXCEPT ![t] = "open"]
  /\ conn_id' = [conn_id EXCEPT ![t] = NullPool_connect(LiveConnections)]
  /\ open_ids' = open_ids \cup {NullPool_connect(LiveConnections)}
  /\ acquired' = [acquired EXCEPT ![t] = @ + 1]
  /\ pc' = [pc EXCEPT ![t] = "execute"]
  /\ UNCHANGED <<pipeline, http, executor, first_outcome, local_engine, clock, start_time, raised_exc, engine, entry, query, timeout_arg, timeout, verdict, warnings, rows, stream,
                 created, submitted, result, response>>

\* engine.connect() raises
ConnectFails(t, exc) ==
  /\ pc[t] = "connect"
  /\ Raise(t, exc)
  /\ UNCHANGED <<pipeline, http, executor, first_outcome, local_engine, conn_id, clock, start_time, engine, entry, query, timeout_arg, timeout, verdict, warnings, rows, stream,
                 acquired, created, submitted>>

\* conn.execution_options(...).execute(sqlalchemy.text(query)): the statement is
\* sent; the call waits for the backend with no timeout set on the statement
Execute(t) ==
  /\ pc[t] = "execute"
  /\ submitted' = [submitted EXCEPT ![t] = @ + 1]
  /\ pc' = [pc EXCEPT ![t] = "waiting"]
  /\ UNCHANGED <<pipeline, http, executor, first_outcome, local_engine, conn_id, open_ids, clock, start_time, raised_exc, engine, entry, query, timeout_arg, timeout, verdict, warnings, rows, stream,
                 conn, acquired, created, result, response>>

\* the backend answers the statement with a result of n rows
BackendAnswers(t, n) ==
  /\ pc[t] = "waiting"
  /\ stream' = [stream EXCEPT ![t] = n]
  /\ pc' = [pc EXCEPT ![t] = "fetch"]
  /\ UNCHANGED <<pipeline, http, executor, first_outcome, local_engine, conn_id, open_ids, clock, start_time, raised_exc, engine, entry, query, timeout_arg, timeout, verdict, warnings, rows,
                 conn, acquired, created, submitted, result, response>>

\* the backend answers the statement with an error: execute raises
BackendFails(t, exc) ==
  /\ pc[t] = "waiting"
  /\ Raise(t, exc)
  /\ UNCHANGED <<pipeline, http, executor, first_outcome, local_engine, conn_id, clock, start_time, engine, entry, query, timeout_arg, timeout, verdict, warnings, rows, stream,
                 acquired, created, submitted>>

\* FetchRow without the test of row_count against self.max_rows
FetchRow_uncapped(t) ==
  /\ pc[t] = "fetch"
  /\ Len(rows[t]) < stream[t]
  /\ rows' = [rows EXCEPT ![t] = Append(@, Len(@) + 1)]
  /\ UNCHANGED <<pipeline, http, executor, first_outcome, local_engine, conn_id, open_ids, clock, start_time, raised_exc, engine, pc, entry, query, timeout_arg, timeout, verdict, warnings, stream,
                 conn, acquired, created, submitted, result, response>>

\* one iteration of `for row in result` that appends the row
FetchRow(t) ==
  /\ pc[t] = "fetch"
  /\ Len(rows[t]) < stream[t]
  /\ Len(rows[t]) < executor.max_rows
  /\ rows' = [rows EXCEPT ![t] = Append(@, Len(@) + 1)]
  /\ UNCHANGED <<pipeline, http, executor, first_outcome, local_engine, conn_id, open_ids, clock, start_time, raised_exc, engine, pc, entry, query, timeout_arg, timeout, verdict, warnings, stream,
                 conn, acquired, created, submitted, result, response>>

\* Truncate with the test made once the cap is reached, whether or not the
\* result has another row
Truncate_at_cap(t) ==
  /\ pc[t] = "fetch"
  /\ Len(rows[t]) >= executor.max_rows
  /\ warnings' = [warnings EXCEPT ![t] = Append(@, "Result truncated to " \o ToString(executor.max_rows) \o " rows")]
  /\ conn' = [conn EXCEPT ![t] = with_exit(conn[t])]
  /\ open_ids' = closed_at_exit(t)
  /\ Return(t, [success |-> TRUE, data |-> Some(rows[t]), row_count |-> Len(rows[t]), execution_time |-> 0, error |-> None,
                warnings |-> warnings'[t]])
  /\ UNCHANGED <<pipeline, http, executor, first_outcome, local_engine, conn_id, clock, start_time, raised_exc, engine, entry, query, timeout_arg, timeout, verdict, rows, stream,
                 acquired, created, submitted>>

\* the iteration that finds row_count >= self.max_rows: the warning, break, and the return
Truncate(t) ==
  /\ pc[t] = "fetch"
  /\ Len(rows[t]) < stream[t]
  /\ Len(rows[t]) >= executor.max_rows
  /\ warnings' = [warnings EXCEPT ![t] = Append(@, "Result truncated to " \o ToString(executor.max_rows) \o " rows")]
  /\ conn' = [conn EXCEPT ![t] = with_exit(conn[t])]
  /\ open_ids' = closed_at_exit(t)
  /\ Return(t, [success |-> TRUE, data |-> Some(rows[t]), row_count |-> Len(rows[t]), execution_time |-> 0, error |-> None,
                warnings |-> warnings'[t]])
  /\ UNCHANGED <<pipeline, http, executor, first_outcome, local_engine, conn_id, clock, start_time, raised_exc, engine, entry, query, timeout_arg, timeout, verdict, rows, stream,
                 acquired, created, submitted>>

\* the result is exhausted: the loop ends and execute_query returns
Complete(t) ==
  /\ pc[t] = "fetch"
  /\ Len(rows[t]) = stream[t]
  /\ conn' = [conn EXCEPT ![t] = with_exit(conn[t])]
  /\ open_ids' = closed_at_exit(t)
  /\ Return(t, [success |-> TRUE, data |-> Some(rows[t]), row_count |-> Len(rows[t]), execution_time |-> 0, error |-> None,
                warnings |-> warnings[t]])
  /\ UNCHANGED <<pipeline, http, executor, first_outcome, local_engine, conn_id, clock, start_time, raised_exc, engine, entry, query, timeout_arg, timeout, verdict, warnings, rows, stream,
                 acquired, created, submitted>>

\* fetching the next row raises
FetchFails(t, exc) ==
  /\ pc[t] = "fetch"
  /\ Len(rows[t]) < stream[t]
  /\ Raise(t, exc)
  /\ UNCHANGED <<pipeline, http, executor, first_outcome, local_engine, conn_id, clock, start_time, engine, entry, query, timeout_arg, timeout, verdict, warnings, rows, stream,
                 acquired, created, submitted>>

\* the steps of a call that is under way
Step(t) ==
  \/ Validate(t)
  \/ CreateEngine(t)
  \/ ReturnEngine(t)
  \/ \E exc \in BackendExceptions : CreateEngineFails(t, exc)
  \/ Connect(t)
  \/ \E exc \in BackendExceptions : ConnectFails(t, exc)
  \/ Execute(t)
  \/ \E n \in 0..MaxBackendRows : BackendAnswers(t, n)
  \/ \E exc \in BackendExceptions : BackendFails(t, exc)
  \/ FetchRow(t)
  \/ Truncate(t)
  \/ Complete(t)
  \/ \E exc \in BackendExceptions : FetchFails(t, exc)

\* one caller issuing one call after the other
Next ==
  \/ \E in \in CallInputs : Call(1, in)
  \/ Step(1)
  \/ Forget(1)

Spec == Init /\ [][Next]_vars

(***************************************************************************)
(* QueryValidator.validate_query called on its own.                        *)
(***************************************************************************)
ValidateOnly(t, q) ==
  /\ pc[t] = "idle"
  /\ entry' = [entry EXCEPT ![t] = "validate_query"]
  /\ query' = [query EXCEPT ![t] = q]
  /\ verdict' = [verdict EXCEPT ![t] = Some(validate_query(q, executor.validator))]
  /\ pc' = [pc EXCEPT ![t] = "done"]
  /\ UNCHANGED <<pipeline, http, executor, first_outcome, local_engine, conn_id, open_ids, clock, start_time, raised_exc, engine, timeout_arg, timeout, warnings, rows, stream, conn, acquired, created,
                 submitted, result, response>>

NextVal ==
  \/ \E q \in ValTexts : ValidateOnly(1, q)
  \/ Forget(1)

ValSpec == Init /\ [][NextVal]_vars

(***************************************************************************)
(* The same executor under fair scheduling: a thread that can take a step  *)
(* of its own takes it.  The backend owes no answer to a statement, so     *)
(* its answers are under no fairness.                                      *)
(***************************************************************************)
ThreadStep(t) ==
  \/ Validate(t)
  \/ CreateEngine(t)
  \/ ReturnEngine(t)
  \/ Connect(t)
  \/ Execute(t)
  \/ FetchRow(t)
  \/ Truncate(t)
  \/ Complete(t)

\* the calls of tests/test_phase4.py's timeout test and of the connection probe
FairInputs ==
  {[entry |-> "execute_sql_safely", query |-> Q_customers, timeout |-> Some(1)],
   [entry |-> "execute_sql_safely", query |-> Q_drop, timeout |-> None],
   [entry |-> "execute_query", query |-> Q_customers, timeout |-> None],
   [entry |-> "test_connection", query |-> Q_select_1, timeout |-> None]}

FairNext ==
  \/ \E in \in FairInputs : Call(1, in)
  \/ Step(1)
  \/ Forget(1)

FairSpec == Init /\ [][FairNext]_vars /\ WF_vars(ThreadStep(1))

(***************************************************************************)
(* validate_query called again and again, on its own and from              *)
(* execute_query, by a caller that keeps the outcome of one validation.    *)
(***************************************************************************)
\* the caller keeps the text and the outcome of the validation that has just ended
KeepOutcome(t) ==
  /\ first_outcome = None
  /\ Ended(t) \/ pc[t] = "create_engine"
  /\ verdict[t] # None
  /\ first_outcome' = Some([query |-> query[t], verdict |-> verdict[t][1]])
  /\ UNCHANGED <<pipeline, http, executor, local_engine, conn_id, open_ids, engine, pc, entry, query, timeout_arg, timeout, verdict, warnings, rows,
                 stream, conn, acquired, created, submitted, result, response, clock, start_time, raised_exc>>

\* the texts validated again and again
AgainTexts ==
  {Q_select_1, Q_customers, Q_drop, Q_info, F_select \o F_join \o F_join, F_select \o F_select \o F_select,
   F_select \o F_lp, F_select \o F_sp \o F_select, <<>>}

\* the calls of execute_query made in between
AgainInputs ==
  {[entry |-> "execute_query", query |-> q, timeout |-> None] : q \in AgainTexts}
    \cup {[entry |-> "execute_sql_safely", query |-> Q_customers, timeout |-> Some(1)]}

AgainNext ==
  \/ \E q \in AgainTexts : ValidateOnly(1, q)
  \/ \E in \in AgainInputs : Call(1, in)
  \/ Step(1)
  \/ KeepOutcome(1)
  \/ Forget(1)

AgainSpec == Init /\ [][AgainNext]_vars

(***************************************************************************)
(* Callers in several threads, each issuing one call after the other to    *)
(* the one executor of the process; their steps interleave in any order.   *)
(***************************************************************************)
\* the calls made concurrently: accepted and rejected texts
ConcInputs ==
  {[entry |-> "execute_query", query |-> Q_customers, timeout |-> None],
   [entry |-> "execute_sql_safely", query |-> Q_customers, timeout |-> Some(1)],
   [entry |-> "execute_query", query |-> Q_drop, timeout |-> None]}

ConcNext ==
  \E t \in Threads :
    \/ \E in \in ConcInputs : Call(t, in)
    \/ Step(t)
    \/ Forget(t)

ConcSpec == Init /\ [][ConcNext]_vars

(***************************************************************************)
(* The executor with time passing.  time.time() reads the system clock,    *)
(* which runs forward and may be set back while a call is under way.       *)
(***************************************************************************)
\* time passes: the clock moves on by a third of a millisecond
Tick ==
  /\ clock < MaxClock
  /\ clock' = clock + 1
  /\ UNCHANGED <<pipeline, http, executor, first_outcome, local_engine, conn_id, open_ids, engine, pc, entry, query, timeout_arg, timeout, verdict, warnings, rows,
                 stream, conn, acquired, created, submitted, result, response, start_time, raised_exc>>

\* the system clock is set back
ClockSetBack ==
  /\ \E earlier \in 0..(clock - 1) : clock' = earlier
  /\ UNCHANGED <<pipeline, http, executor, first_outcome, local_engine, conn_id, open_ids, engine, pc, entry, query, timeout_arg, timeout, verdict, warnings, rows,
                 stream, conn, acquired, created, submitted, result, response, start_time, raised_exc>>

TimeNext ==
  \/ \E in \in FairInputs : Call(1, in)
  \/ Step(1)
  \/ Forget(1)
  \/ Tick
  \/ ClockSetBack

TimeSpec == Init /\ [][TimeNext]_vars

(***************************************************************************)
(* SafeQueryExecutor.format_result called on its own, on well-formed and   *)
(* on malformed outcomes, beside the calls that reach it through           *)
(* execute_sql_safely.                                                     *)
(***************************************************************************)
\* the QueryResult objects given to format_result
Outcomes ==
  [success : BOOLEAN,
   data : {None, Some(<<>>), Some(<<1, 2>>)},
   row_count : {0, 2},
   execution_time : (0 - MaxClock)..(MaxClock + 1),
   error : {None, Some(<<"Database error: ", "boom">>)},
   warnings : {<<>>, <<"Result truncated to 2 rows">>}]

\* executor.format_result(r)
FormatOnly(t, r) ==
  /\ pc[t] = "idle"
  /\ entry' = [entry EXCEPT ![t] = "format_result"]
  /\ result' = [result EXCEPT ![t] = Some(r)]
  /\ response' = [response EXCEPT ![t] = [kind |-> "dict", value |-> format_result(r)]]
  /\ pc' = [pc EXCEPT ![t] = "done"]
  /\ UNCHANGED <<pipeline, http, executor, engine, query, timeout_arg, timeout, verdict, warnings, rows, stream, conn,
                 acquired, created, submitted, clock, start_time, raised_exc, first_outcome, local_engine,
                 conn_id, open_ids>>

FormatNext ==
  \/ \E r \in Outcomes : FormatOnly(1, r)
  \/ \E in \in FairInputs : Call(1, in)
  \/ Step(1)
  \/ Tick
  \/ Forget(1)

FormatSpec == Init /\ [][FormatNext]_vars

(***************************************************************************)
(* The executor against a backend that may also answer with a result       *)
(* larger than the default row cap.                                        *)
(***************************************************************************)
RowNext ==
  \/ \E in \in FairInputs : Call(1, in)
  \/ Step(1)
  \/ BackendAnswers(1, BigResultRows)
  \/ Forget(1)

RowSpec == Init /\ [][RowNext]_vars

(***************************************************************************)
(* Properties.                                                             *)
(***************************************************************************)
\* the call of thread t is one of the executor's public functions
ExecutorCall(t) == entry[t] \in {"execute_query", "execute_sql_safely", "test_connection"}

\* validate_query accepted the text of thread t's call
Accepted(t) == verdict[t] # None /\ ~verdict[t][1].raised

\* validate_query rejected the text of thread t's call
Rejected(t) == verdict[t] # None /\ verdict[t][1].raised

\* the gates of the validator, each stated on the text itself
StartsWithSelect(q) == startswith(lower(strip(q)), SELECT_WORD)
ParensBalanced(q) == count(q, <<"(">>) = count(q, <<")">>)
HasForbiddenWord(q) == \E k \in DOMAIN FORBIDDEN_KEYWORDS : re_search_word(FORBIDDEN_KEYWORDS[k].chars, lower(q))
HasRestricted(q) == \E k \in DOMAIN RESTRICTED_KEYWORDS : contains(lower(q), RESTRICTED_KEYWORDS[k].chars)

PassesAllGates(q, policy) ==
  /\ StartsWithSelect(q)
  /\ ParensBalanced(q)
  /\ ~HasForbiddenWord(q)
  /\ ~HasRestricted(q)
  /\ Len(q) <= policy.max_length
  /\ findall_word_count(JOIN_WORD, lower(q)) <= policy.max_joins
  /\ count(lower(q), SELECT_WORD) - 1 <= policy.max_subqueries

\* C1: a text that execute_query has sent to the backend satisfies every gate of
\* the validator under the executor's policy: it starts with select once trimmed
\* and lower-cased, its parentheses balance, it holds no forbidden keyword as a
\* whole word and no restricted substring, and its length, join count and
\* subquery count are within the limits.
C1_SubmittedTextPassesGates ==
  \A t \in Threads : submitted[t] > 0 => PassesAllGates(query[t], executor.validator)

\* C1 witness: a text with a forbidden keyword inside an identifier is waiting at the backend
C1_Witness ==
  \E t \in Threads : pc[t] = "waiting" /\ submitted[t] = 1 /\ contains(query[t], F_drop)

\* C2: a call whose text the validator rejects creates no engine, opens no
\* connection and sends no statement, and returns success=False with the error
\* 'Safety violation: ' followed by the validator's reason.
C2_RejectedNeverReachesBackend ==
  \A t \in Threads :
    (ExecutorCall(t) /\ pc[t] \notin {"idle", "validate"}
       /\ validate_query(query[t], executor.validator).raised)
    => /\ created[t] = 0 /\ acquired[t] = 0 /\ submitted[t] = 0 /\ conn[t] = "none"
       /\ pc[t] = "done"
       /\ result[t] = Some(Failure(<<"Safety violation: ">> \o validate_query(query[t], executor.validator).reason))

\* C2 witness: 'DROP TABLE customers;' was rejected after an earlier call had bound the engine
C2_Witness ==
  \E t \in Threads : pc[t] = "done" /\ query[t] = Q_drop /\ Rejected(t) /\ engine # 0

\* C3 as claimed: a call whose text passes validation acquires exactly one
\* connection and has released it when it returns, on every exit path.
C3_Original_ExactlyOneConnection ==
  \A t \in Threads : (Ended(t) /\ Accepted(t)) => (acquired[t] = 1 /\ conn[t] = "closed")

\* C3 as amended: a call whose text passes validation acquires at most one
\* connection: none when creating the engine or connecting fails (the call then
\* returns a failure without sending the statement), exactly one otherwise; no
\* connection is open when the call has ended, whichever way it ended.
C3_AtMostOneConnectionReleased ==
  \A t \in Threads :
    Accepted(t) =>
      /\ acquired[t] <= 1
      /\ (conn[t] = "none") = (acquired[t] = 0)
      /\ submitted[t] > 0 => acquired[t] = 1
      /\ pc[t] \in {"execute", "waiting", "fetch"} => conn[t] = "open"
      /\ Ended(t) => /\ conn[t] # "open"
                     /\ acquired[t] = 1 => conn[t] = "closed"
                     /\ acquired[t] = 0 => (submitted[t] = 0 /\ pc[t] = "done" /\ ~result[t][1].success)
                     /\ (pc[t] = "done" /\ result[t][1].success) => acquired[t] = 1

\* C3 witness: a call that failed while rows were being read has ended with its connection closed
C3_Witness ==
  \E t \in Threads :
    /\ pc[t] = "done" /\ Accepted(t) /\ acquired[t] = 1 /\ conn[t] = "closed"
    /\ Len(rows[t]) > 0 /\ ~result[t][1].success

\* C4: every call eventually returns, also when the backend never answers the
\* statement: a call that waits for the backend eventually ends.
C4_EveryCallReturns ==
  \A t \in Threads : (pc[t] = "waiting") ~> Ended(t)

\* the response of an ended call is populated: it has the shape the public
\* function returns, success is a boolean, and a failure carries a non-empty error
Populated(t) ==
  /\ entry[t] = "execute_query" =>
       /\ response[t].kind = "QueryResult"
       /\ response[t].value.success \in BOOLEAN
       /\ ~response[t].value.success =>
            (response[t].value.error # None /\ Len(response[t].value.error[1]) > 0)
  /\ entry[t] = "execute_sql_safely" =>
       /\ response[t].kind = "dict"
       /\ response[t].value.success \in BOOLEAN
       /\ ~response[t].value.success =>
            /\ "error" \in DOMAIN response[t].value
            /\ response[t].value.error # None /\ Len(response[t].value.error[1]) > 0
  /\ entry[t] = "test_connection" =>
       /\ response[t].kind = "bool"
       /\ response[t].value \in BOOLEAN

\* C5: execute_query, format_result, execute_sql_safely and test_connection
\* never raise to their caller: whatever the text and whatever the backend
\* does, the call ends by returning a populated outcome, and success=False
\* comes with a non-empty error string.
C5_NeverRaises ==
  \A t \in Threads :
    /\ pc[t] # "raised"
    /\ (pc[t] = "done" /\ ExecutorCall(t)) => Populated(t)

\* C5 witness: an exception that is no SQLAlchemyError and has an empty message,
\* raised while rows were being read, was returned as an outcome
C5_Witness ==
  \E t \in Threads :
    /\ pc[t] = "done" /\ Len(rows[t]) > 0
    /\ result[t] = Some(Failure(<<"Unexpected error: ">>))

\* the checks of validate_query in the claimed order, each stated on the text itself
GateViolated(k, q, policy) ==
  CASE k = 1 -> strip(q) = <<>>
    [] k = 2 -> ~StartsWithSelect(q)
    [] k = 3 -> ~ParensBalanced(q)
    [] k = 4 -> HasForbiddenWord(q)
    [] k = 5 -> HasRestricted(q)
    [] k = 6 -> Len(q) > policy.max_length
    [] k = 7 -> findall_word_count(JOIN_WORD, lower(q)) > policy.max_joins
    [] k = 8 -> count(lower(q), SELECT_WORD) - 1 > policy.max_subqueries

\* how the reason of each check begins
GateMessage ==
  <<"Empty query", "Only SELECT queries are allowed", "Unmatched parentheses in query",
    "Forbidden keyword '", "Access to '", "Query too long: ", "Too many JOINs: ", "Too many subqueries: ">>

GatesViolated(q, policy) == {k \in DOMAIN GateMessage : GateViolated(k, q, policy)}

\* C6: validate_query applies its checks in the order empty text, starts with
\* select, parenthesis balance, forbidden keywords, restricted substrings,
\* length, join count, subquery count: it accepts a text that violates none,
\* and for a text that violates several the reason is that of the first one
\* violated in this order.
C6_FirstViolatedCheckIsReported ==
  \A t \in Threads :
    (entry[t] = "validate_query" /\ verdict[t] # None) =>
      LET violated == GatesViolated(query[t], executor.validator)
      IN IF violated = {}
         THEN ~verdict[t][1].raised
         ELSE /\ verdict[t][1].raised
              /\ verdict[t][1].reason[1] = GateMessage[FirstHit(violated)]

\* C6 witness: a text that is over-long and holds a forbidden keyword was rejected for the keyword
C6_Witness ==
  \E t \in Threads :
    /\ entry[t] = "validate_query" /\ verdict[t] # None
    /\ {4, 6} \subseteq GatesViolated(query[t], executor.validator)
    /\ verdict[t][1].reason[1] = GateMessage[4]

\* no connection, engine or statement came of thread t's call
NoBackendCall(t) == created[t] = 0 /\ acquired[t] = 0 /\ submitted[t] = 0 /\ conn[t] = "none"

\* thread t's call returned success=False with this error
FailedWith(t, error) == pc[t] = "done" /\ ~result[t][1].success /\ result[t][1].error = Some(error)

\* C7 as claimed: for every text that does not begin with select (whatever the
\* case, after trimming) execute_query returns success=False with
\* 'Only SELECT queries are allowed', and no backend call occurs.
C7_Original_NonSelectGetsSelectRejection ==
  \A t \in Threads :
    (ExecutorCall(t) /\ Ended(t) /\ ~StartsWithSelect(query[t])) =>
      /\ FailedWith(t, <<"Safety violation: ", "Only SELECT queries are allowed">>)
      /\ NoBackendCall(t)

\* C7 as amended: for every text that is not empty after trimming and does not
\* begin with select, execute_query returns success=False with 'Only SELECT
\* queries are allowed'; a text that is empty after trimming is rejected with
\* 'Empty query'; in both cases no backend call occurs.
C7_NonEmptyNonSelectGetsSelectRejection ==
  \A t \in Threads :
    (ExecutorCall(t) /\ Ended(t) /\ ~StartsWithSelect(query[t])) =>
      /\ IF strip(query[t]) = <<>>
         THEN FailedWith(t, <<"Safety violation: ", "Empty query">>)
         ELSE FailedWith(t, <<"Safety violation: ", "Only SELECT queries are allowed">>)
      /\ NoBackendCall(t)

\* C7 witness: 'DROP TABLE customers;' was rejected as not being a SELECT
C7_Witness ==
  \E t \in Threads :
    /\ query[t] = Q_drop
    /\ FailedWith(t, <<"Safety violation: ", "Only SELECT queries are allowed">>)

\* the error of a rejection for the forbidden keyword FORBIDDEN_KEYWORDS[k]
KeywordError(k) == <<"Safety violation: ", "Forbidden keyword '", FORBIDDEN_KEYWORDS[k].name, "' detected">>

\* the forbidden keywords that occur in q as whole words, in any casing
WholeWordKeywords(q) == {k \in DOMAIN FORBIDDEN_KEYWORDS : re_search_word(FORBIDDEN_KEYWORDS[k].chars, lower(q))}

\* C8 as claimed: for every text that holds a forbidden keyword as a whole
\* word, execute_query returns success=False with an error naming a keyword
\* the text holds, and no backend call occurs.
C8_Original_KeywordIsNamed ==
  \A t \in Threads :
    (ExecutorCall(t) /\ Ended(t) /\ WholeWordKeywords(query[t]) # {}) =>
      /\ \E k \in WholeWordKeywords(query[t]) : FailedWith(t, KeywordError(k))
      /\ NoBackendCall(t)

\* C8 as amended: for every text that holds a forbidden keyword as a whole
\* word, execute_query returns success=False and no backend call occurs; when
\* the text passes the syntax gate (not empty, starts with select, parentheses
\* balanced) the error names the keyword, the first in the order of the list
\* if the text holds several; otherwise the error is the syntax gate's, as
\* for 'DROP TABLE customers;', rejected with 'Only SELECT queries are allowed'.
C8_KeywordRejectedNamedAfterSyntax ==
  \A t \in Threads :
    (ExecutorCall(t) /\ Ended(t) /\ WholeWordKeywords(query[t]) # {}) =>
      /\ pc[t] = "done" /\ ~result[t][1].success
      /\ NoBackendCall(t)
      /\ IF strip(query[t]) # <<>> /\ StartsWithSelect(query[t]) /\ ParensBalanced(query[t])
         THEN FailedWith(t, KeywordError(FirstHit(WholeWordKeywords(query[t]))))
         ELSE \E k \in 1..3 : FailedWith(t, <<"Safety violation: ", GateMessage[k]>>)
      /\ query[t] = Q_drop => FailedWith(t, <<"Safety violation: ", "Only SELECT queries are allowed">>)

\* C8 witness: 'select into insert' was rejected for insert, which the list has before into
C8_Witness ==
  \E t \in Threads :
    /\ query[t] = L_select_sp \o FORBIDDEN_KEYWORDS[15].chars \o F_sp \o FORBIDDEN_KEYWORDS[5].chars
    /\ FailedWith(t, KeywordError(5))

\* the identifiers of s: its maximal runs of word characters
Identifiers(s) ==
  LET starts == {i \in 1..Len(s) : IsWordChar(s[i]) /\ (i = 1 \/ ~IsWordChar(s[i - 1]))}
      ends == {j \in 1..Len(s) : IsWordChar(s[j]) /\ (j = Len(s) \/ ~IsWordChar(s[j + 1]))}
  IN {SubSeq(s, i, CHOOSE j \in ends : j >= i /\ \A m \in ends : m >= i => j <= m) : i \in starts}

KeywordChars == {FORBIDDEN_KEYWORDS[k].chars : k \in DOMAIN FORBIDDEN_KEYWORDS}

\* a forbidden keyword occurs in q, in some casing, and only inside longer identifiers
KeywordOnlyInsideIdentifiers(q) ==
  /\ \E w \in KeywordChars : contains(lower(q), w)
  /\ Identifiers(lower(q)) \cap KeywordChars = {}

\* C9: forbidden keywords are matched as whole words only: a text in which
\* forbidden keywords occur only inside longer identifiers (letters, digits
\* or underscore next to them) is not rejected by the forbidden-keyword gate.
C9_KeywordInsideIdentifierNotRejected ==
  \A t \in Threads :
    (entry[t] = "validate_query" /\ verdict[t] # None /\ KeywordOnlyInsideIdentifiers(query[t])) =>
      /\ forbidden_hit(query[t]) = 0
      /\ verdict[t][1].raised => verdict[t][1].reason[1] # "Forbidden keyword '"

\* C9 witness: 'select deleted' was accepted
C9_Witness ==
  \E t \in Threads :
    /\ entry[t] = "validate_query" /\ verdict[t] # None
    /\ query[t] = L_select_sp \o FORBIDDEN_KEYWORDS[7].chars \o T_d
    /\ ~verdict[t][1].raised

\* the restricted namespace prefixes the claim lists
ClaimedPrefixes ==
  {RESTRICTED_KEYWORDS[k] : k \in {k \in DOMAIN RESTRICTED_KEYWORDS : RESTRICTED_KEYWORDS[k].name # "union"}}

\* the text of thread t's validate_query call passed the syntax and keyword gates
PastKeywordGate(t) ==
  /\ entry[t] = "validate_query" /\ verdict[t] # None
  /\ strip(query[t]) # <<>> /\ StartsWithSelect(query[t]) /\ ParensBalanced(query[t])
  /\ ~HasForbiddenWord(query[t])

\* thread t's validate_query call was rejected by the restricted check
RestrictedRejection(t) == verdict[t][1].raised /\ verdict[t][1].reason[1] = "Access to '"

\* C10 as claimed: a text that passes the syntax and forbidden-keyword gates
\* is rejected by the restricted check exactly when its lower-cased form holds
\* one of information_schema, pg_, mysql., sys., master., msdb., tempdb.,
\* performance_schema as a substring.
C10_Original_RejectedIffClaimedPrefix ==
  \A t \in Threads :
    PastKeywordGate(t) =>
      (RestrictedRejection(t) <=> \E r \in ClaimedPrefixes : contains(lower(query[t]), r.chars))

\* C10 as amended: a text that passes the syntax and forbidden-keyword gates
\* is rejected by the restricted check exactly when its lower-cased form holds
\* one of union, information_schema, pg_, mysql., sys., master., msdb.,
\* tempdb., performance_schema as a substring, and the reason names the first
\* of these, in this order, that the text holds; 'SELECT * FROM
\* information_schema.tables;' is rejected naming information_schema.
C10_RejectedIffRestrictedSubstring ==
  \A t \in Threads :
    PastKeywordGate(t) =>
      LET held == {k \in DOMAIN RESTRICTED_KEYWORDS : contains(lower(query[t]), RESTRICTED_KEYWORDS[k].chars)}
      IN /\ RestrictedRejection(t) <=> held # {}
         /\ held # {} =>
              verdict[t][1].reason = <<"Access to '", RESTRICTED_KEYWORDS[FirstHit(held)].name, "' is not allowed">>
         /\ query[t] = Q_info =>
              verdict[t][1].reason = <<"Access to '", "information_schema", "' is not allowed">>

\* C10 witness: 'select pg_ performance_schema' was rejected naming information_schema's
\* successor in the list, pg_, and not performance_schema
C10_Witness ==
  \E t \in Threads :
    /\ PastKeywordGate(t)
    /\ query[t] = L_select_sp \o RESTRICTED_KEYWORDS[9].chars \o F_sp \o RESTRICTED_KEYWORDS[3].chars
    /\ verdict[t][1].reason = <<"Access to '", "pg_", "' is not allowed">>


\* validate_query was called on its own by thread t and has returned or raised
Validated(t) == entry[t] = "validate_query" /\ verdict[t] # None

\* the positions of the lower-cased text q at which w stands as a whole word
WordPositions(q, w) == {i \in 1..Len(q) : WordMatchAt(lower(q), w, i)}

\* the text q reaches the join count: no check before it is violated
ReachesJoinGate(q, policy) == GatesViolated(q, policy) \cap 1..6 = {}

\* C11: for a text that violates no earlier check, the join gate rejects
\* exactly when the number of whole-word occurrences of join in the lower-cased
\* text is strictly greater than max_joins; the reason then reads
\* "Too many JOINs: <count> > <max_joins>" (6 > 5 for six joins under the
\* default limit), and a text with at most max_joins joins and no other
\* violation is accepted.
C11_JoinGateRejectsAboveLimit ==
  \A t \in Threads :
    (Validated(t) /\ ReachesJoinGate(query[t], executor.validator)) =>
      LET n == Cardinality(WordPositions(query[t], JOIN_WORD))
          limit == executor.validator.max_joins
          v == verdict[t][1]
      IN IF n > limit
         THEN v.raised /\ v.reason = <<"Too many JOINs: ", ToString(n), " > ", ToString(limit)>>
         ELSE /\ (v.raised => v.reason[1] # "Too many JOINs: ")
              /\ (8 \notin GatesViolated(query[t], executor.validator) => ~v.raised)

\* C11 witness: six joins under max_joins = 5 were rejected with "6 > 5"
C11_Witness ==
  \E t \in Threads :
    /\ Validated(t)
    /\ executor.validator.max_joins = DEFAULT_MAX_JOINS
    /\ Cardinality(WordPositions(query[t], JOIN_WORD)) = DEFAULT_MAX_JOINS + 1
    /\ verdict[t][1].raised
    /\ verdict[t][1].reason = <<"Too many JOINs: ", "6", " > ", "5">>

\* C11 second case: exactly max_joins joins under the default limit were accepted
C11_AcceptedAtLimit ==
  \E t \in Threads :
    /\ Validated(t)
    /\ executor.validator.max_joins = DEFAULT_MAX_JOINS
    /\ Cardinality(WordPositions(query[t], JOIN_WORD)) = DEFAULT_MAX_JOINS
    /\ ~verdict[t][1].raised

\* the positions of the lower-cased text q at which w stands, as a word or inside one
SubstringPositions(q, w) == {i \in 1..Len(q) : MatchAt(lower(q), w, i)}

\* the text q reaches the subquery count: no check before it is violated
ReachesSubqueryGate(q, policy) == GatesViolated(q, policy) \cap 1..7 = {}

\* validate_query rejected the text of thread t for its subqueries
SubqueryRejection(t) == verdict[t][1].raised /\ verdict[t][1].reason[1] = "Too many subqueries: "

\* C12 as stated: for a text that violates no earlier check, the subquery gate
\* rejects exactly when the number of occurrences of the word select in the
\* lower-cased text, less one for the leading SELECT, is strictly greater than
\* max_subqueries.
C12_Original_CountsTheWordSelect ==
  \A t \in Threads :
    (Validated(t) /\ ReachesSubqueryGate(query[t], executor.validator)) =>
      (SubqueryRejection(t) <=>
         Cardinality(WordPositions(query[t], SELECT_WORD)) - 1 > executor.validator.max_subqueries)

\* C12 amended: for a text that violates no earlier check, the subquery gate
\* rejects exactly when the number of occurrences of the character string
\* select in the lower-cased text (as a word of its own or inside a longer
\* identifier such as select_x), less one for the leading SELECT, is strictly
\* greater than max_subqueries; the reason then reads
\* "Too many subqueries: <count> > <max_subqueries>", and otherwise the text
\* is accepted.
C12_SubqueryGateCountsSubstring ==
  \A t \in Threads :
    (Validated(t) /\ ReachesSubqueryGate(query[t], executor.validator)) =>
      LET n == Cardinality(SubstringPositions(query[t], SELECT_WORD)) - 1
          limit == executor.validator.max_subqueries
          v == verdict[t][1]
      IN IF n > limit
         THEN v.raised /\ v.reason = <<"Too many subqueries: ", ToString(n), " > ", ToString(limit)>>
         ELSE ~v.raised

\* C12 witness: four inner selects, each a word of its own, under
\* max_subqueries = 3 were rejected with "4 > 3"
C12_Witness ==
  \E t \in Threads :
    /\ Validated(t)
    /\ executor.validator.max_subqueries = DEFAULT_MAX_SUBQUERIES
    /\ Cardinality(WordPositions(query[t], SELECT_WORD)) = DEFAULT_MAX_SUBQUERIES + 2
    /\ verdict[t][1].raised
    /\ verdict[t][1].reason = <<"Too many subqueries: ", "4", " > ", "3">>

\* C12 second case: three inner selects under max_subqueries = 3 were accepted
C12_AcceptedAtLimit ==
  \E t \in Threads :
    /\ Validated(t)
    /\ executor.validator.max_subqueries = DEFAULT_MAX_SUBQUERIES
    /\ Cardinality(WordPositions(query[t], SELECT_WORD)) = DEFAULT_MAX_SUBQUERIES + 1
    /\ Cardinality(SubstringPositions(query[t], SELECT_WORD)) = DEFAULT_MAX_SUBQUERIES + 1
    /\ ~verdict[t][1].raised

\* the text q reaches the length check: no check before it is violated
ReachesLengthGate(q, policy) == GatesViolated(q, policy) \cap 1..5 = {}

\* validate_query rejected the text of thread t for its length
LengthRejection(t) == verdict[t][1].raised /\ verdict[t][1].reason[1] = "Query too long: "

\* C13 as stated: for a text that violates no earlier check, the length gate
\* rejects exactly when the raw text has more than max_length characters, and
\* the 200-column query of the tests is rejected as too long under the default
\* limits.
C13_Original_TestQueryTooLong ==
  \A t \in Threads :
    (Validated(t) /\ ReachesLengthGate(query[t], executor.validator)) =>
      /\ LengthRejection(t) <=> Len(query[t]) > executor.validator.max_length
      /\ (query[t] = Q_columns(TestColumns) /\ executor.validator = DefaultPolicy) => LengthRejection(t)

\* C13, the gate as the code has it: for a text that violates no earlier
\* check, the length gate rejects exactly when the raw, untrimmed text has
\* more than max_length characters, with the reason
\* "Query too long: <length> > <max_length> characters"; the 200-column query
\* of the tests is 1511 characters long, so under max_length = 2000 the
\* length gate does not reject it and validate_query accepts it.
C13_LengthGateOnRawText ==
  \A t \in Threads :
    (Validated(t) /\ ReachesLengthGate(query[t], executor.validator)) =>
      LET limit == executor.validator.max_length
          v == verdict[t][1]
      IN /\ IF Len(query[t]) > limit
            THEN v.raised /\ v.reason = <<"Query too long: ", ToString(Len(query[t])), " > ", ToString(limit), " characters">>
            ELSE ~LengthRejection(t)
         /\ (query[t] = Q_columns(TestColumns) /\ executor.validator = DefaultPolicy) =>
              Len(query[t]) = 1511 /\ ~v.raised

\* C13, the gate on raw text: a text longer than max_length only by the whitespace around
\* it was rejected as too long
C13_Witness ==
  \E t \in Threads :
    /\ Validated(t)
    /\ Len(query[t]) > executor.validator.max_length
    /\ Len(strip(query[t])) <= executor.validator.max_length
    /\ LengthRejection(t)

\* C13 second case: the 200-column query was accepted under the default limits
C13_TestQueryAccepted ==
  \E t \in Threads :
    /\ Validated(t)
    /\ query[t] = Q_columns(TestColumns) /\ executor.validator = DefaultPolicy
    /\ ~verdict[t][1].raised

\* C13 third case: the query with more columns was rejected for its length under the default limits
C13_LongerQueryRejected ==
  \E t \in Threads :
    /\ Validated(t)
    /\ query[t] = Q_columns(TestColumns + MoreColumns) /\ executor.validator = DefaultPolicy
    /\ LengthRejection(t)

\* execute_query returned a successful outcome to thread t
Succeeded(t) == result[t] # None /\ result[t][1].success

\* the first n rows of the backend's result, in the backend's order
StreamPrefix(n) == [i \in 1..n |-> i]

\* C14: in every successful outcome row_count is the number of records of
\* data, row_count is at most max_rows, and data is the prefix of the
\* backend's result in the backend's order: all of it when it has at most
\* max_rows rows, else its first max_rows rows together with the warning
\* "Result truncated to <max_rows> rows" (2500 rows under max_rows = 1000:
\* row_count = 1000 and a warning holding 1000).
C14_DataIsCappedPrefix ==
  \A t \in Threads :
    Succeeded(t) =>
      LET r == result[t][1]
          cap == executor.max_rows
      IN /\ r.data # None
         /\ r.row_count = Len(r.data[1])
         /\ r.row_count <= cap
         /\ r.row_count <= stream[t]
         /\ r.data[1] = StreamPrefix(r.row_count)
         /\ IF stream[t] > cap
            THEN /\ r.row_count = cap
                 /\ \E i \in DOMAIN r.warnings : r.warnings[i] = "Result truncated to " \o ToString(cap) \o " rows"
            ELSE /\ r.row_count = stream[t]
                 /\ r.warnings = <<>>

\* C14 witness: a backend result of 2500 rows under max_rows = 1000 came back
\* as 1000 rows with the warning naming 1000
C14_Witness ==
  \E t \in Threads :
    /\ Succeeded(t)
    /\ executor.max_rows = DEFAULT_MAX_ROWS
    /\ stream[t] = BigResultRows
    /\ result[t][1].row_count = DEFAULT_MAX_ROWS
    /\ Len(result[t][1].data[1]) = DEFAULT_MAX_ROWS
    /\ result[t][1].warnings = <<"Result truncated to 1000 rows">>

\* execute_query returned a failed outcome to thread t
Failed(t) == result[t] # None /\ ~result[t][1].success

\* the error of a failed outcome, by the origin of the failure
ErrorOfOrigin(exc, effective) ==
  CASE exc.origin = "validator" -> <<"Safety violation: ">> \o exc.msg
    [] exc.origin = "timeout" -> <<"Query timeout after ", ToString(effective), " seconds">>
    [] exc.origin = "database" -> <<"Database error: ">> \o exc.msg
    [] exc.origin = "other" -> <<"Unexpected error: ">> \o exc.msg

\* C15: every failed outcome of execute_query has the error form of the
\* failure's origin: "Safety violation: " and the reason for a rejection by
\* the validator, "Query timeout after N seconds" with N the effective
\* timeout of the call for a timeout of the backend, "Database error: " and
\* the message for any other error of the backend, "Unexpected error: " and
\* the message for anything else; a timeout of the backend is never reported
\* as a database error.
C15_ErrorFormFollowsOrigin ==
  \A t \in Threads :
    (Failed(t) /\ raised_exc[t] # None) =>
      result[t][1].error = Some(ErrorOfOrigin(raised_exc[t][1], timeout[t]))

\* C15, what the code does: the error form follows the class of the exception,
\* the first except clause that matches it
C15_ErrorFormFollowsClass ==
  \A t \in Threads :
    (Failed(t) /\ raised_exc[t] # None) =>
      LET exc == raised_exc[t][1]
      IN result[t][1].error = Some(
           CASE exc.cls = "QuerySafetyError" -> <<"Safety violation: ">> \o exc.msg
             [] exc.cls = "TimeoutError" -> <<"Query timeout after ", ToString(timeout[t]), " seconds">>
             [] exc.cls = "OperationalError" -> <<"Database error: ">> \o exc.msg
             [] exc.cls = "RuntimeError" -> <<"Unexpected error: ">> \o exc.msg)

\* C15: a timeout of the backend came back as a database error
C15_TimeoutReportedAsDatabaseError ==
  \E t \in Threads :
    /\ Failed(t) /\ raised_exc[t] # None
    /\ raised_exc[t][1].origin = "timeout"
    /\ result[t][1].error[1][1] = "Database error: "

\* C16: on every exit path of execute_query (rejection, success, timeout,
\* database error, unexpected error) the outcome carries an execution_time,
\* the time from the start of the call to the return, and it is never
\* negative.
C16_ExecutionTimeNonNegative ==
  \A t \in Threads :
    result[t] # None => result[t][1].execution_time >= 0

\* C16, what the code does: on every exit path execution_time is the
\* difference of two readings of time.time(), the one at the return less the
\* one at the start of the call
C16_ExecutionTimeIsClockDifference ==
  [][\A t \in Threads :
       (result[t] = None /\ result'[t] # None) =>
         result'[t][1].execution_time = clock - start_time[t]]_vars

\* C16: a call returned a negative execution_time
C16_NegativeExecutionTime ==
  \E t \in Threads : result[t] # None /\ result[t][1].execution_time < 0

\* C16: every exit path returned with time having passed since the start of the call
C16_TimedRejection ==
  \E t \in Threads :
    /\ Failed(t) /\ raised_exc[t] # None /\ raised_exc[t][1].origin = "validator"
    /\ result[t][1].execution_time > 0

InWithBlock(t) == conn[t] = "open"

\* C18: no two calls of execute_query that are under way at the same time
\* use the same connection: the connection of each with block is an object of
\* the call's own, and it stays open at the backend, with the statement in
\* flight on it, until the call itself leaves the block: an error or a
\* timeout in another call closes the other call's connection only.
C18_ConnectionsNotShared ==
  \A t \in Threads :
    InWithBlock(t) =>
      /\ conn_id[t] # 0
      /\ conn_id[t] \in open_ids
      /\ acquired[t] = 1
      /\ \A u \in Threads \ {t} : InWithBlock(u) => conn_id[u] # conn_id[t]

\* C18 witness: one call has failed on its connection while the statement of
\* another call is in flight on a connection that is open
C18_Witness ==
  \E t \in Threads : \E u \in Threads \ {t} :
    /\ pc[t] = "waiting" /\ InWithBlock(t) /\ conn_id[t] \in open_ids
    /\ Failed(u) /\ submitted[u] = 1 /\ conn[u] = "closed"
    /\ raised_exc[u] # None /\ raised_exc[u][1].origin = "timeout"

\* no call is under way
Quiescent == \A t \in Threads : pc[t] = "idle" \/ Ended(t)

\* C19: execute_query mutates no state shared with other calls: whenever the
\* calls made so far have all ended, in whatever order their steps
\* interleaved, the module-level engine of the connection module is what it
\* was before them (None), and the executor's policy, default timeout and row
\* cap are as constructed.
C19_SharedStateAsBefore ==
  Quiescent => (engine = 0 /\ executor \in Executors)

\* C19: a call went on with the engine that the call of another thread had
\* bound to the module's global
C19_ForeignEngineUsed ==
  \E t \in Threads : local_engine[t] # 0 /\ local_engine[t] # t

\* C19, what the code keeps: no step of a call changes the executor: its
\* policy, default timeout and row cap
C19_ExecutorUnchanged == [][executor' = executor]_vars

\* C20: within one call of execute_query the text is sent to the backend at
\* most once, on at most one connection of at most one engine; once an
\* exception has been raised in the call (a timeout, a database error, an
\* unexpected error, a rejection) the call has ended with the failed outcome,
\* its connection closed: it neither connects nor submits again.
C20_NoRetryWithinACall ==
  \A t \in Threads :
    /\ submitted[t] <= 1
    /\ acquired[t] <= 1
    /\ created[t] <= 1
    /\ (raised_exc[t] # None /\ ExecutorCall(t)) =>
         /\ pc[t] = "done"
         /\ Failed(t)
         /\ conn[t] # "open"

\* C20 witness: a call whose statement the backend answered with an error
\* has returned the failure after one connection and one submission
C20_Witness ==
  \E t \in Threads :
    /\ pc[t] = "done" /\ Failed(t)
    /\ raised_exc[t] # None /\ raised_exc[t][1].origin = "database"
    /\ submitted[t] = 1 /\ acquired[t] = 1 /\ created[t] = 1
    /\ stream[t] = -1
    /\ conn[t] = "closed"

\* the call of thread t has gone to the backend: an engine, a connection or a statement
ReachedBackend(t) == created[t] > 0 \/ acquired[t] > 0 \/ submitted[t] > 0

\* C21: validation is run again in every call of execute_query and its outcome
\* is not kept from one call to the next: a call that has gone to the backend,
\* also one that repeats the text of an earlier call, has itself, before that,
\* run validate_query over the whole of its text under the executor's policy,
\* and was accepted.
C21_ValidatedWithinTheCall ==
  \A t \in Threads :
    (ExecutorCall(t) /\ ReachedBackend(t)) =>
      /\ verdict[t] # None
      /\ verdict[t][1] = validate_query(query[t], executor.validator)
      /\ ~verdict[t][1].raised

\* C21 witness: a text accepted in an earlier call was given in a later call,
\* which validated it and submitted it
C21_Witness ==
  \E t \in Threads :
    /\ first_outcome # None /\ ~first_outcome[1].verdict.raised
    /\ ExecutorCall(t) /\ query[t] = first_outcome[1].query
    /\ engine # 0 /\ pc[t] = "waiting"
    /\ verdict[t] # None /\ submitted[t] = 1

\* C22: the effective timeout of a call of execute_query is the caller's
\* timeout whenever the caller gave one and the executor's default_timeout
\* otherwise, and it is always a positive number of seconds.
C22_EffectiveTimeoutIsOverrideOrDefault ==
  \A t \in Threads :
    (ExecutorCall(t) /\ pc[t] # "idle") =>
      /\ timeout[t] = (IF timeout_arg[t] = None THEN executor.default_timeout ELSE timeout_arg[t][1])
      /\ timeout[t] > 0

\* C22, what the code does: `timeout or self.default_timeout` takes the
\* caller's timeout unless it is None or 0, whatever its sign
C22_EffectiveTimeoutIsOrDefault ==
  \A t \in Threads :
    (ExecutorCall(t) /\ pc[t] # "idle") =>
      timeout[t] = (IF timeout_arg[t] = None \/ timeout_arg[t] = Some(0)
                    THEN executor.default_timeout ELSE timeout_arg[t][1])

\* C22: a call given the timeout 0 ran with the default timeout
C22_ZeroOverrideReplaced ==
  \E t \in Threads :
    ExecutorCall(t) /\ pc[t] = "waiting" /\ timeout_arg[t] = Some(0) /\ timeout[t] = executor.default_timeout

\* C22: a call ran with a negative effective timeout
C22_NegativeEffectiveTimeout ==
  \E t \in Threads : ExecutorCall(t) /\ pc[t] = "waiting" /\ timeout[t] < 0

\* format_result has answered thread t: called on its own or by execute_sql_safely
Formatted(t) == result[t] # None /\ response[t].kind = "dict"

\* C23: the keys of format_result's answer follow from the success flag alone:
\* for a successful outcome success, execution_time, row_count and data, and
\* warnings exactly when the list is not empty, never error; for a failed one
\* success, execution_time, row_count and error, never data or warnings; the
\* values are those of the outcome, the time rounded to the millisecond and
\* otherwise passed on as it is, negative or not.
C23_KeysFollowSuccessFlag ==
  \A t \in Threads :
    Formatted(t) =>
      LET r == result[t][1]
          f == response[t].value
      IN /\ f.success = r.success /\ f.row_count = r.row_count
         /\ f.execution_time % 3 = 0
         /\ f.execution_time - r.execution_time \in {-1, 0, 1}
         /\ IF r.success
            THEN /\ DOMAIN f = {"success", "execution_time", "row_count", "data"}
                                 \cup (IF r.warnings # <<>> THEN {"warnings"} ELSE {})
                 /\ f.data = r.data
                 /\ r.warnings # <<>> => f.warnings = r.warnings
            ELSE /\ DOMAIN f = {"success", "execution_time", "row_count", "error"}
                 /\ f.error = r.error

\* C23 witness: a successful outcome with an empty warnings list, an error
\* set and a negative time was formatted
C23_Witness ==
  \E t \in Threads :
    /\ Formatted(t) /\ entry[t] = "format_result"
    /\ result[t][1].success /\ result[t][1].warnings = <<>> /\ result[t][1].error # None
    /\ result[t][1].execution_time < 0
    /\ "warnings" \notin DOMAIN response[t].value

\* C23 second case: execute_sql_safely answered a failed execution
C23_FailureFormatted ==
  \E t \in Threads :
    /\ Formatted(t) /\ entry[t] = "execute_sql_safely" /\ ~result[t][1].success
    /\ result[t][1].execution_time = 2 /\ response[t].value.execution_time = 3

\* test_connection has returned to thread t
Probed(t) == entry[t] = "test_connection" /\ pc[t] = "done"

\* C24: test_connection sends its probe, SELECT 1 as test_value, through
\* execute_query, validation included, and returns the success flag of that
\* execution; the validator accepts the probe under the default policy, and
\* whenever the probe is accepted the answer is True exactly when the backend
\* executed it and gave its rows without raising.
C24_ProbeReturnsSuccessFlag ==
  \A t \in Threads :
    Probed(t) =>
      /\ query[t] = Q_select_1
      /\ verdict[t] # None /\ result[t] # None
      /\ response[t] = [kind |-> "bool", value |-> result[t][1].success]
      /\ executor.validator = DefaultPolicy => Accepted(t)
      /\ Accepted(t) =>
           (response[t].value <=> (raised_exc[t] = None /\ submitted[t] = 1 /\ stream[t] >= 0))

\* C24 witness: under the default policy the probe was executed and test_connection returned True
C24_Witness ==
  \E t \in Threads :
    /\ Probed(t) /\ executor.validator = DefaultPolicy
    /\ submitted[t] = 1 /\ stream[t] = 1 /\ raised_exc[t] = None
    /\ response[t] = [kind |-> "bool", value |-> TRUE]

\* C24 second case: the backend failed and test_connection returned False
C24_ProbeFailed ==
  \E t \in Threads :
    /\ Probed(t) /\ Accepted(t)
    /\ raised_exc[t] # None /\ raised_exc[t][1].origin = "timeout"
    /\ response[t] = [kind |-> "bool", value |-> FALSE]

\* C24 third case: under a policy that rejects the probe test_connection
\* returned False with no call of the backend
C24_ProbeRejected ==
  \E t \in Threads :
    /\ Probed(t) /\ Rejected(t) /\ NoBackendCall(t)
    /\ response[t] = [kind |-> "bool", value |-> FALSE]

(***************************************************************************)
(* TextToSQLPipeline.generate_sql and execute_text_to_sql.  The schema     *)
(* step is left out: get_schema_info returns {} from its except clause and *)
(* never raises.  Confidence, prompt_used and metadata are left out too.   *)
(***************************************************************************)
\* the calls: generate_sql with its arguments, and execute_text_to_sql, which
\* calls generate_sql with execute_query=True and no agent
PipelineInputs ==
  {[entry |-> "generate_sql", template_type |-> tt, use_agent |-> ua, execute_query |-> ex] :
      tt \in {"langchain", "few_shot"}, ua \in BOOLEAN, ex \in BOOLEAN}
    \cup {[entry |-> "execute_text_to_sql", template_type |-> tt, use_agent |-> FALSE, execute_query |-> TRUE] :
            tt \in {"few_shot", "langchain"}}

\* the dataclass, with the fields the callers read
SQLGenerationResult(q, execution_result, error) ==
  [query |-> q, execution_result |-> execution_result, error |-> error]

\* the response execute_text_to_sql builds from generate_sql's result; a key
\* that is not set is None
execute_text_to_sql(r) ==
  LET er == r.execution_result
  IN [sql_query |-> r.query,
      success |-> IF er # None THEN er[1].success ELSE FALSE,
      data |-> IF er # None THEN Some(er[1].data) ELSE None,
      row_count |-> IF er # None THEN Some(er[1].row_count) ELSE None,
      execution_time |-> IF er # None THEN Some(er[1].execution_time) ELSE None,
      warnings |-> IF er # None /\ er[1].warnings # <<>> THEN Some(er[1].warnings) ELSE None,
      error |-> IF er # None /\ ~er[1].success THEN er[1].error ELSE None,
      sql_generation_error |-> r.error]

\* generate_sql returns r from the frame f; execute_text_to_sql, if it was the
\* function called, builds its response
PipelineReturn(f, r) ==
  [f EXCEPT !.pc = "done", !.out = Some(r),
            !.response = IF f.entry = "execute_text_to_sql" THEN Some(execute_text_to_sql(r)) ELSE None]

\* generate_sql's except clause: the exception's text becomes the error
PipelineExcept(f, e) == PipelineReturn(f, SQLGenerationResult(<<>>, None, Some(e)))

\* Finish running the executor whatever the cleaned text is
Finish_always_executes(f) ==
  LET cleaned == clean_sql_query(f.sql_query)
      g == [f EXCEPT !.cleaned_query = cleaned]
  IN IF f.execute_query
     THEN IF ~f.result_bound THEN PipelineExcept(g, "UnboundLocalError")
          ELSE IF f.in_result THEN PipelineReturn(g, SQLGenerationResult(cleaned, f.execution_result, None))
          ELSE [g EXCEPT !.pc = "execute_cleaned"]
     ELSE PipelineReturn(g, SQLGenerationResult(cleaned, None, None))

\* generate_sql from "Clean up the generated SQL" on: the local result is read
\* by `"execution_result" in result`, which raises UnboundLocalError on the
\* custom path, where nothing was assigned to it
Finish(f) ==
  LET cleaned == clean_sql_query(f.sql_query)
      g == [f EXCEPT !.cleaned_query = cleaned]
  IN IF f.execute_query /\ cleaned # <<>>
     THEN IF ~f.result_bound THEN PipelineExcept(g, "UnboundLocalError")
          ELSE IF f.in_result THEN PipelineReturn(g, SQLGenerationResult(cleaned, f.execution_result, None))
          ELSE [g EXCEPT !.pc = "execute_cleaned"]
     ELSE PipelineReturn(g, SQLGenerationResult(cleaned, None, None))

\* generate_sql or execute_text_to_sql is called
PipelineCall(in) ==
  /\ pipeline.pc = "idle"
  /\ pipeline' = [pc |-> "generate", entry |-> in.entry, template_type |-> in.template_type,
                  use_agent |-> in.use_agent, execute_query |-> in.execute_query,
                  sql_query |-> <<>>, cleaned_query |-> <<>>, result_bound |-> FALSE, in_result |-> FALSE,
                  execution_result |-> None, generated |-> <<>>, executed |-> <<>>,
                  out |-> None, response |-> None]
  /\ UNCHANGED <<http, executor, engine, pc, entry, query, timeout_arg, timeout, verdict, warnings, rows,
                 stream, conn, acquired, created, submitted, result, response, clock, start_time, raised_exc,
                 first_outcome, local_engine, conn_id, open_ids>>

\* the first generation step meets reply: the agent, the chain or the custom
\* LLM gives its text, and generate_sql runs on to the executor or to its return
Generate(reply) ==
  /\ pipeline.pc = "generate"
  /\ pipeline' =
       IF pipeline.template_type = "langchain" \/ pipeline.use_agent
       THEN IF pipeline.use_agent
            THEN LET sql == analyze_complex_query(reply)
                 IN Finish([pipeline EXCEPT !.sql_query = sql, !.generated = Append(@, sql), !.result_bound = TRUE])
            ELSE LET sql == TextToSQLChain_generate_sql(reply)
                 IN IF pipeline.execute_query /\ sql # <<>>
                    THEN [pipeline EXCEPT !.pc = "execute_initial", !.sql_query = sql, !.generated = Append(@, sql)]
                    ELSE Finish([pipeline EXCEPT !.sql_query = sql, !.generated = Append(@, sql), !.result_bound = TRUE])
       ELSE IF reply = None
            THEN PipelineExcept(pipeline, "RuntimeError")
            ELSE LET sql == GroqLLM_generate_sql(reply[1])
                 IN Finish([pipeline EXCEPT !.sql_query = sql, !.generated = Append(@, sql)])
  /\ UNCHANGED <<http, executor, engine, pc, entry, query, timeout_arg, timeout, verdict, warnings, rows,
                 stream, conn, acquired, created, submitted, result, response, clock, start_time, raised_exc,
                 first_outcome, local_engine, conn_id, open_ids>>

\* self.query_executor.execute_query(...) is called with the text the frame
\* holds at this line: sql_query on the chain path, cleaned_query after cleaning
PipelineExecutes ==
  /\ pipeline.pc \in {"execute_initial", "execute_cleaned"}
  /\ Call(1, [entry |-> "execute_query",
              query |-> IF pipeline.pc = "execute_initial" THEN pipeline.sql_query ELSE pipeline.cleaned_query,
              timeout |-> None])

\* the executor has returned to the chain path: the chain generates again,
\* with the execution result for its explanation, and its dict takes the
\* place of the first one, the execution result stored under "execution_result"
Regenerate(reply) ==
  /\ pipeline.pc = "execute_initial"
  /\ pc[1] = "done"
  /\ LET sql == TextToSQLChain_generate_sql(reply)
     IN pipeline' = Finish([pipeline EXCEPT !.sql_query = sql, !.generated = Append(@, sql),
                                            !.executed = Append(@, query[1]),
                                            !.execution_result = result[1],
                                            !.result_bound = TRUE, !.in_result = TRUE])
  /\ UNCHANGED <<http, executor, engine, pc, entry, query, timeout_arg, timeout, verdict, warnings, rows,
                 stream, conn, acquired, created, submitted, result, response, clock, start_time, raised_exc,
                 first_outcome, local_engine, conn_id, open_ids>>

\* the executor has returned to "Execute query ourselves": generate_sql returns
ExecutedCleaned ==
  /\ pipeline.pc = "execute_cleaned"
  /\ pc[1] = "done"
  /\ pipeline' = PipelineReturn([pipeline EXCEPT !.executed = Append(@, query[1]), !.execution_result = result[1]],
                                SQLGenerationResult(pipeline.cleaned_query, result[1], None))
  /\ UNCHANGED <<http, executor, engine, pc, entry, query, timeout_arg, timeout, verdict, warnings, rows,
                 stream, conn, acquired, created, submitted, result, response, clock, start_time, raised_exc,
                 first_outcome, local_engine, conn_id, open_ids>>

\* the caller is done with what the pipeline gave it; the executor's call,
\* if there was one, is over as well
PipelineForget ==
  /\ pipeline.pc = "done"
  /\ pipeline' = NoPipeline
  /\ IF pc[1] = "idle"
     THEN UNCHANGED <<executor, engine, pc, entry, query, timeout_arg, timeout, verdict, warnings, rows,
                      stream, conn, acquired, created, submitted, result, response, clock, start_time,
                      raised_exc, first_outcome, local_engine, conn_id, open_ids>>
     ELSE /\ pc' = [pc EXCEPT ![1] = "idle"]
          /\ entry' = [entry EXCEPT ![1] = "none"]
          /\ query' = [query EXCEPT ![1] = <<>>]
          /\ timeout_arg' = [timeout_arg EXCEPT ![1] = None]
          /\ timeout' = [timeout EXCEPT ![1] = 0]
          /\ verdict' = [verdict EXCEPT ![1] = None]
          /\ warnings' = [warnings EXCEPT ![1] = <<>>]
          /\ rows' = [rows EXCEPT ![1] = <<>>]
          /\ stream' = [stream EXCEPT ![1] = -1]
          /\ conn' = [conn EXCEPT ![1] = "none"]
          /\ acquired' = [acquired EXCEPT ![1] = 0]
          /\ created' = [created EXCEPT ![1] = 0]
          /\ submitted' = [submitted EXCEPT ![1] = 0]
          /\ result' = [result EXCEPT ![1] = None]
          /\ response' = [response EXCEPT ![1] = NoResponse]
          /\ start_time' = [start_time EXCEPT ![1] = 0]
          /\ raised_exc' = [raised_exc EXCEPT ![1] = None]
          /\ local_engine' = [local_engine EXCEPT ![1] = 0]
          /\ conn_id' = [conn_id EXCEPT ![1] = 0]
          /\ open_ids' = open_ids \ {conn_id[1]}
          /\ UNCHANGED <<executor, first_outcome, clock, engine>>
  /\ UNCHANGED http

\* one caller of the pipeline, the executor working for it
PipeNext ==
  \/ \E in \in PipelineInputs : PipelineCall(in)
  \/ \E reply \in Replies : Generate(reply)
  \/ PipelineExecutes
  \/ Step(1)
  \/ \E reply \in Replies : Regenerate(reply)
  \/ ExecutedCleaned
  \/ PipelineForget

PipeSpec == Init /\ [][PipeNext]_vars

\* generate_sql has returned
PipelineDone == pipeline.pc = "done"

\* a generation step of the call gave a non-empty query
GenerationYieldedQuery == \E i \in 1..Len(pipeline.generated) : pipeline.generated[i] # <<>>

\* C25: when execute_text_to_sql has returned and generation gave a non-empty
\* query, a generated query was submitted to the executor, and the response
\* has the success flag, the data, the row count and the execution time of
\* that execution.
C25_GeneratedQueryIsExecuted ==
  (PipelineDone /\ pipeline.entry = "execute_text_to_sql" /\ GenerationYieldedQuery) =>
    /\ Len(pipeline.executed) = 1
    /\ \E i \in 1..Len(pipeline.generated) : pipeline.generated[i] = pipeline.executed[1]
    /\ pipeline.execution_result # None
    /\ pipeline.response[1].success = pipeline.execution_result[1].success
    /\ pipeline.response[1].data = Some(pipeline.execution_result[1].data)
    /\ pipeline.response[1].row_count = Some(pipeline.execution_result[1].row_count)
    /\ pipeline.response[1].execution_time = Some(pipeline.execution_result[1].execution_time)

\* C25, the failing case: with the default template the custom LLM gave
\* SELECT * FROM customers; and execute_text_to_sql returned success False with
\* the UnboundLocalError as generation error, the executor never called
C25_CustomPathNeverExecutes ==
  /\ PipelineDone /\ pipeline.entry = "execute_text_to_sql" /\ pipeline.template_type = "few_shot"
  /\ pipeline.generated = <<Q_customers>>
  /\ pipeline.executed = <<>> /\ pc[1] = "idle"
  /\ pipeline.response[1].success = FALSE
  /\ pipeline.response[1].sql_query = <<>>
  /\ pipeline.response[1].sql_generation_error = Some("UnboundLocalError")

\* C25, second failing case: on the langchain path the query was executed with
\* success, the second generation failed, and the response says success False
C25_SuccessfulExecutionDropped ==
  /\ PipelineDone /\ pipeline.entry = "execute_text_to_sql" /\ pipeline.template_type = "langchain"
  /\ Len(pipeline.executed) = 1 /\ pipeline.execution_result # None
  /\ pipeline.execution_result[1].success
  /\ pipeline.response[1].success = FALSE

\* the executor is working, or has worked, for the pipeline's call
ExecutorInvoked == pc[1] # "idle" \/ pipeline.executed # <<>>

\* C27: in generate_sql with execute_query=True the executor's execute_query
\* is called only after a generation step returned a non-empty query; when
\* generation failed or gave an empty string, the executor is not invoked and
\* the execution_result returned is None.
C27_ExecutorOnlyAfterNonEmptyGeneration ==
  /\ ExecutorInvoked =>
       /\ pipeline.pc # "idle" /\ pipeline.execute_query
       /\ GenerationYieldedQuery
       /\ query[1] # <<>>
  /\ (PipelineDone /\ ~GenerationYieldedQuery) =>
       /\ ~ExecutorInvoked
       /\ pipeline.out[1].execution_result = None

\* C27 witness: execution was asked for, the one generation step failed or gave
\* nothing, and generate_sql returned without execution result, the executor idle
C27_Witness ==
  /\ PipelineDone /\ pipeline.execute_query
  /\ pipeline.template_type = "langchain"
  /\ pipeline.generated = << <<>> >>
  /\ ~ExecutorInvoked
  /\ pipeline.out[1].execution_result = None

\* C27 second case: the executor is at work after a non-empty generation
C27_ExecutorAtWork ==
  /\ pipeline.pc = "execute_initial" /\ pc[1] = "validate"
  /\ pipeline.generated = <<Q_customers>>

\* generate_sql has returned a result that carries an execution result
CarriesExecutionResult == PipelineDone /\ pipeline.out[1].execution_result # None

\* C28: when generate_sql with execute_query=True returns a result carrying an
\* execution_result, that result is the one the executor gave, and the query
\* returned is the text the executor was given, as it was or cleaned by
\* _clean_sql_query, whatever the generation steps answered.
C28_QueryIsTheExecutedText ==
  (CarriesExecutionResult /\ pipeline.execute_query) =>
    /\ Len(pipeline.executed) = 1
    /\ pipeline.out[1].execution_result = pipeline.execution_result
    /\ \/ pipeline.out[1].query = pipeline.executed[1]
       \/ pipeline.out[1].query = clean_sql_query(pipeline.executed[1])

\* C28, what the code does: the query returned is the last generation's text
\* cleaned, and the text executed is the first generation's, as it was on the
\* chain path and cleaned on the agent path
C28_QueryIsLastGenerationCleaned ==
  (CarriesExecutionResult /\ pipeline.execute_query) =>
    /\ Len(pipeline.executed) = 1
    /\ pipeline.out[1].query = clean_sql_query(pipeline.generated[Len(pipeline.generated)])
    /\ pipeline.executed[1] =
         IF pipeline.use_agent THEN clean_sql_query(pipeline.generated[1]) ELSE pipeline.generated[1]
    /\ Len(pipeline.generated) = IF pipeline.use_agent THEN 1 ELSE 2

\* C28, the failing case: the chain answered SELECT * FROM customers; first
\* and DROP TABLE customers; second, and the result pairs the second text
\* with the successful execution of the first
C28_ResultOfAnotherQuery ==
  /\ CarriesExecutionResult /\ ~pipeline.use_agent
  /\ pipeline.generated = <<Q_customers, Q_drop>>
  /\ pipeline.executed = <<Q_customers>>
  /\ pipeline.out[1].query = Q_drop
  /\ pipeline.out[1].execution_result[1].success

\* the warning of a truncated result under the cap n
TruncationWarning(n) == "Result truncated to " \o ToString(n) \o " rows"

\* C29: the warnings of a successful outcome are the one entry "Result
\* truncated to N rows", N = max_rows, when the backend's result has more than
\* max_rows rows, and no entry at all otherwise; a result of exactly max_rows
\* rows comes back in full with no warning.
C29_WarningIffTruncated ==
  \A t \in Threads :
    Succeeded(t) =>
      LET r == result[t][1]
          cap == executor.max_rows
      IN /\ r.warnings = IF stream[t] > cap THEN <<TruncationWarning(cap)>> ELSE <<>>
         /\ stream[t] = cap => (r.data = Some(StreamPrefix(cap)) /\ r.row_count = cap)

\* C29 witness: the backend's result had exactly max_rows rows and came back
\* in full without a warning
C29_Witness ==
  \E t \in Threads :
    /\ Succeeded(t)
    /\ stream[t] = executor.max_rows
    /\ Len(result[t][1].data[1]) = executor.max_rows
    /\ result[t][1].warnings = <<>>

\* C29 second case: one row more than max_rows, and the one warning
C29_OneRowMore ==
  \E t \in Threads :
    /\ Succeeded(t)
    /\ stream[t] = executor.max_rows + 1
    /\ result[t][1].row_count = executor.max_rows
    /\ result[t][1].warnings = <<TruncationWarning(executor.max_rows)>>

(***************************************************************************)
(* The routes of src/api/routes.py that validate a query and report        *)
(* health.  A route handles one request in one step; http keeps the last   *)
(* request handled and its answer.                                         *)
(***************************************************************************)
\* the names an instance of SafeQueryExecutor answers to: the attributes set
\* by __init__ and the methods of the class
SafeQueryExecutor_attributes ==
  {"validator", "default_timeout", "max_rows", "execute_query", "format_result", "test_connection"}

\* GET /validate-sql: get_query_executor() builds or finds the executor, which
\* opens no connection; executor.validate_query is looked up on it, the lookup
\* of a name the executor does not answer to raises AttributeError, and the
\* except clause turns any exception into HTTPException(500)
ValidateSql(q) ==
  /\ "validate_query" \notin SafeQueryExecutor_attributes
  /\ http' = [route |-> "validate-sql", query |-> q, status_code |-> 500,
              raised |-> Some("AttributeError"), valid |-> None, error |-> None]
  /\ UNCHANGED <<pipeline, executor, engine, pc, entry, query, timeout_arg, timeout, verdict, warnings, rows,
                 stream, conn, acquired, created, submitted, result, response, clock, start_time, raised_exc,
                 first_outcome, local_engine, conn_id, open_ids>>

\* connection.test_connection: True when the engine is there or can be
\* created and SELECT 1 runs on a connection of it, False from its except
\* clause otherwise
connection_test_connection(create_ok, select_ok) ==
  [type |-> "bool", value |-> (engine # 0 \/ create_ok) /\ select_ok]

\* check_database_health with conn_info being what test_connection returned:
\* conn_info.get("success") on a dict, AttributeError on anything without get,
\* which the except clause answers with "disconnected"
check_database_health(conn_info) ==
  IF conn_info.type = "dict"
  THEN IF conn_info.value.success THEN "connected" ELSE "disconnected"
  ELSE "disconnected"

\* GET /health: the database check, the AI check ("ready" whenever the
\* pipeline can be had, since generate_sql always returns a result object),
\* and the overall status
HealthCheck(create_ok, select_ok, pipeline_ok) ==
  /\ LET conn_info == connection_test_connection(create_ok, select_ok)
         db_status == check_database_health(conn_info)
         ai_status == IF pipeline_ok THEN "ready" ELSE "unavailable"
     IN http' = [route |-> "health", status_code |-> 200, conn_info |-> conn_info,
                 database_status |-> db_status, ai_status |-> ai_status,
                 status |-> IF db_status = "connected" /\ ai_status = "ready" THEN "healthy" ELSE "degraded"]
  /\ engine' = IF engine = 0 /\ create_ok THEN 1 ELSE engine
  /\ UNCHANGED <<pipeline, executor, pc, entry, query, timeout_arg, timeout, verdict, warnings, rows,
                 stream, conn, acquired, created, submitted, result, response, clock, start_time, raised_exc,
                 first_outcome, local_engine, conn_id, open_ids>>

\* requests to the two routes, one after the other
RouteNext ==
  \/ \E q \in AgainTexts \cup FragTexts(2) : ValidateSql(q)
  \/ \E create_ok \in BOOLEAN, select_ok \in BOOLEAN, pipeline_ok \in BOOLEAN : HealthCheck(create_ok, select_ok, pipeline_ok)

RouteSpec == Init /\ [][RouteNext]_vars

\* C26: the validate-sql route answers valid=true for a query the validator
\* accepts and valid=false with the rejection reason as error for one it
\* rejects, and in neither case ends in a server error or has an engine or a
\* connection made.
C26_ValidateSqlAnswersTheVerdict ==
  http.route = "validate-sql" =>
    LET v == validate_query(http.query, executor.validator)
    IN /\ http.status_code = 200
       /\ http.valid = Some(~v.raised)
       /\ v.raised => http.error = Some(v.reason)
       /\ open_ids = {}

\* C26, the failing cases: the query of the test that is to be valid, and the
\* one that is to be invalid, both answered with a server error
C26_ServerErrorForValidQuery ==
  /\ http.route = "validate-sql" /\ http.query = Q_customers
  /\ ~validate_query(Q_customers, executor.validator).raised
  /\ http.status_code = 500 /\ http.raised = Some("AttributeError")

C26_ServerErrorForRejectedQuery ==
  /\ http.route = "validate-sql" /\ http.query = Q_drop
  /\ validate_query(Q_drop, executor.validator).raised
  /\ http.status_code = 500 /\ http.raised = Some("AttributeError")

\* C26, what does hold: the route makes no engine and opens no connection
C26_NoConnectionOpened ==
  [][http'.route = "validate-sql" => (engine' = engine /\ open_ids' = open_ids /\ acquired' = acquired)]_vars

\* C30: the health route reports the database as connected exactly when the
\* connection test succeeded, and the overall status is healthy exactly when
\* the connection test succeeded and the AI check says ready, degraded
\* otherwise.
C30_HealthFollowsConnectionTest ==
  http.route = "health" =>
    /\ http.database_status = (IF http.conn_info.value THEN "connected" ELSE "disconnected")
    /\ http.status = (IF http.conn_info.value /\ http.ai_status = "ready" THEN "healthy" ELSE "degraded")

\* C30, the failing case: the connection test succeeded, the AI check says
\* ready, and the route reports disconnected and degraded
C30_ConnectedReportedDisconnected ==
  /\ http.route = "health"
  /\ http.conn_info = [type |-> "bool", value |-> TRUE]
  /\ http.ai_status = "ready"
  /\ http.database_status = "disconnected"
  /\ http.status = "degraded"

\* C30, what does hold: the overall status is healthy exactly when the
\* database status is connected and the AI status is ready, and the database
\* status is never connected
C30_StatusFollowsTheTwoChecks ==
  http.route = "health" =>
    /\ http.status = (IF http.database_status = "connected" /\ http.ai_status = "ready" THEN "healthy" ELSE "degraded")
    /\ http.database_status = "disconnected"

====
